---------------------------- MODULE Spec2Model ----------------------------
(***************************************************************************)
(* Model of the Sinhala text -> sign pipeline of signosi-fyp:              *)
(*   letter_mapping_service.py   grapheme segmentation and unit reduction  *)
(*   sinhala_sign_language.py    the priority-ordered rule engine          *)
(*   mapping_rules.py            the rule variants                         *)
(*   translation_service.py      translate_text_to_slsl and its fallbacks  *)
(*                                                                         *)
(* A Python str is a sequence of Unicode code points (naturals), so that   *)
(* str.lower(), str.isdigit(), ord() ranges and per-character scans are    *)
(* computed as the code computes them.  None is the sequence <<-1>>, which *)
(* is no string.  Python indices are 0-based, the model's are 1-based.     *)
(***************************************************************************)
EXTENDS Integers, Sequences, FiniteSets, TLC

VARIABLES
    loaded_custom_data,      \* lk-dictionary-mapping.json as read at start-up
    word_to_sign_dict,       \* SinhalaSignLanguage.word_to_sign_dict
    mapping_rules,           \* SinhalaSignLanguage.mapping_rules
    _sinhala_spelling_rule,  \* SinhalaSignLanguage._sinhala_spelling_rule
    landmarks_dir,           \* what is at the landmark path: "directory",
                             \* or "file" (os.listdir raises on it)
    letter_landmarks,        \* the landmark files found on disk
    _letter_mapping_service, \* the module-level singleton (None or built)
    models,                  \* translation_service.models (model keys)
    s3_client,               \* translation_service.s3_client: "None", or a
                             \* client that "answers" or "raises"
    pc,                      \* "idle", or "done" after a call returned
    op,                      \* the operation that was called
    arg,                     \* its arguments
    ret,                     \* what it returned (or raised)
    trace                    \* what it did on the way

vars == <<loaded_custom_data, word_to_sign_dict, mapping_rules,
          _sinhala_spelling_rule, landmarks_dir, letter_landmarks,
          _letter_mapping_service, models, s3_client, pc, op, arg, ret,
          trace>>

None == <<-1>>

(***************************************************************************)
(* Bounds of the model.                                                    *)
(***************************************************************************)
MaxWordLen == 3      \* length of the words given to the letter service
MaxTokenLen == 2     \* length of one token given to the rule engine
MaxTokens == 2       \* tokens (and tags) in one tokens_to_sign_dicts call
MaxTextLen == 4      \* length of a text given to translate_text_to_slsl

\* Sequences over S of length 0..n.
RECURSIVE SeqsUpTo(_, _)
SeqsUpTo(S, n) ==
    IF n = 0 THEN {<<>>}
    ELSE LET shorter == SeqsUpTo(S, n - 1)
         IN  shorter \cup {Append(s, c) : s \in shorter, c \in S}

RECURSIVE Concat(_)
Concat(ss) == IF ss = <<>> THEN <<>> ELSE Head(ss) \o Concat(Tail(ss))

Range(s) == {s[k] : k \in DOMAIN s}

Min(a, b) == IF a < b THEN a ELSE b
Max(a, b) == IF a > b THEN a ELSE b

\* Python's s[a:b] for 0 <= a, with 0-based a and b.
Slice(s, a, b) == SubSeq(s, a + 1, Min(b, Len(s)))

(***************************************************************************)
(* letter_mapping_service.py: the character tables (code points).          *)
(***************************************************************************)
SINHALA_CONSONANTS ==
    {3353, 3482, 3483, 3484, 3485, 3488, 3489, 3490, 3491, 3492, 3495, 3496,
     3497, 3498, 3499, 3501, 3502, 3503, 3504, 3505, 3508, 3509, 3510, 3511,
     3512, 3514, 3515, 3517, 3520, 3521, 3522, 3523, 3524, 3525, 3526}

\* dependent vowel sign -> independent vowel letter
SINHALA_VOWEL_MODIFIERS ==
    3535 :> 3462 @@ 3536 :> 3463 @@ 3537 :> 3464 @@ 3538 :> 3465 @@
    3539 :> 3466 @@ 3540 :> 3467 @@ 3542 :> 3468 @@ 3544 :> 3469 @@
    3545 :> 3473 @@ 3546 :> 3474 @@ 3547 :> 3475 @@ 3548 :> 3476 @@
    3549 :> 3477 @@ 3550 :> 3478 @@ 3570 :> 3470

SINHALA_INDEPENDENT_VOWELS ==
    {3461, 3462, 3463, 3464, 3465, 3466, 3467, 3468, 3469, 3470, 3473, 3474,
     3475, 3476, 3477, 3478}

HAL_KIRIMA == 3530                       \* U+0DCA, the virama
AYANNA == 3461                           \* U+0D85, the inherent vowel 'a'
KOMBUVA == 3545                          \* U+0DD9, vowel sign e
AELA_PILLA == 3535                       \* U+0DCF, vowel sign aa
DIGA_IS_PILLA == 3539                    \* U+0DD3, vowel sign ii
KOMBUVA_HAA_AELA_PILLA == 3548           \* U+0DDC, vowel sign o
DIGA_KOMBUVA == 3546                     \* U+0DDA, vowel sign ee
KOMBUVA_HAA_DIGA_AELA_PILLA == 3549      \* U+0DDD, vowel sign oo
KOMBUVA_HAA_GAYANUKITTA == 3550          \* U+0DDE, vowel sign au

SINHALA_COMBINING_MARKS == DOMAIN SINHALA_VOWEL_MODIFIERS \cup {HAL_KIRIMA}

(***************************************************************************)
(* LetterMappingService.break_word_to_letters                              *)
(***************************************************************************)
\* A segmenter step that gives a word-final consonant no inherent vowel.
BreakStepBareFinal(word, i) ==
    IF word[i] \in SINHALA_CONSONANTS
    THEN IF i + 1 <= Len(word)
              /\ word[i + 1] \in DOMAIN SINHALA_VOWEL_MODIFIERS
         THEN [units |-> <<<<word[i], HAL_KIRIMA>>,
                           <<SINHALA_VOWEL_MODIFIERS[word[i + 1]]>>>>,
               next |-> i + 2]
         ELSE IF i + 1 <= Len(word) /\ word[i + 1] = HAL_KIRIMA
         THEN [units |-> <<<<word[i], HAL_KIRIMA>>>>, next |-> i + 2]
         ELSE IF i + 1 <= Len(word)
         THEN [units |-> <<<<word[i], HAL_KIRIMA>>, <<AYANNA>>>>,
               next |-> i + 1]
         ELSE [units |-> <<<<word[i], HAL_KIRIMA>>>>, next |-> i + 1]
    ELSE [units |-> <<<<word[i]>>>>, next |-> i + 1]

\* A segmenter step that skips the characters it has no rule for, as
\* break_word_to_main_letters does.
BreakStepSkipOther(word, i) ==
    IF word[i] \in SINHALA_CONSONANTS
    THEN IF i + 1 <= Len(word)
              /\ word[i + 1] \in DOMAIN SINHALA_VOWEL_MODIFIERS
         THEN [units |-> <<<<word[i], HAL_KIRIMA>>,
                           <<SINHALA_VOWEL_MODIFIERS[word[i + 1]]>>>>,
               next |-> i + 2]
         ELSE IF i + 1 <= Len(word) /\ word[i + 1] = HAL_KIRIMA
         THEN [units |-> <<<<word[i], HAL_KIRIMA>>>>, next |-> i + 2]
         ELSE [units |-> <<<<word[i], HAL_KIRIMA>>, <<AYANNA>>>>,
               next |-> i + 1]
    ELSE IF word[i] \in SINHALA_INDEPENDENT_VOWELS
    THEN [units |-> <<<<word[i]>>>>, next |-> i + 1]
    ELSE [units |-> <<>>, next |-> i + 1]

\* A segmenter step that always moves the index on by two.
BreakStepByTwo(word, i) ==
    [units |-> <<<<word[i]>>>>, next |-> i + 2]

\* One iteration of the while loop at index i (1-based): the units it
\* appends to decomposed and the index it leaves in i.
BreakStep(word, i) ==
    LET char == word[i]
        n == Len(word)
        with_hal == <<char, HAL_KIRIMA>>
    IN  IF char \in SINHALA_CONSONANTS
        THEN IF i + 1 <= n
             THEN LET next_char == word[i + 1]
                  IN  IF next_char \in DOMAIN SINHALA_VOWEL_MODIFIERS
                      THEN [units |-> <<with_hal,
                                        <<SINHALA_VOWEL_MODIFIERS[next_char]>>>>,
                            next |-> i + 2]
                      ELSE IF next_char = HAL_KIRIMA
                      THEN [units |-> <<with_hal>>, next |-> i + 2]
                      ELSE [units |-> <<with_hal, <<AYANNA>>>>, next |-> i + 1]
             ELSE [units |-> <<with_hal, <<AYANNA>>>>, next |-> i + 1]
        ELSE IF char \in SINHALA_INDEPENDENT_VOWELS
        THEN [units |-> <<<<char>>>>, next |-> i + 1]
        ELSE [units |-> <<<<char>>>>, next |-> i + 1]

\* The iterations of the loop from index i on: position, units, next index.
RECURSIVE BreakScan(_, _)
BreakScan(word, i) ==
    IF i > Len(word) THEN <<>>
    ELSE LET st == BreakStep(word, i)
         IN  <<[pos |-> i, units |-> st.units, next |-> st.next]>>
             \o BreakScan(word, st.next)

\* decomposed: the units of all iterations, in order.
UnitsOf(scan) == Concat([k \in DOMAIN scan |-> scan[k].units])

break_word_to_letters(word) == UnitsOf(BreakScan(word, 1))

(***************************************************************************)
(* LetterMappingService._normalize_prebase_vowel_signs                     *)
(***************************************************************************)
\* A helper that moves the sign behind the consonant but never folds two
\* marks into one.
combine_without_folding(consonant, following) ==
    IF /\ Len(following) >= 1
       /\ following[1] \in {KOMBUVA, KOMBUVA_HAA_AELA_PILLA,
                            KOMBUVA_HAA_DIGA_AELA_PILLA,
                            KOMBUVA_HAA_GAYANUKITTA}
    THEN [combined |-> <<consonant, following[1]>>, consumed |-> 1]
    ELSE [combined |-> <<consonant>>, consumed |-> 0]

\* The inner helper: (the characters to emit, how many of following it used).
combine_split_vowel_signs(consonant, following) ==
    IF /\ Len(following) >= 2
       /\ following[1] = KOMBUVA
       /\ following[2] = AELA_PILLA
    THEN [combined |-> <<consonant, KOMBUVA_HAA_AELA_PILLA>>, consumed |-> 2]
    ELSE IF /\ Len(following) >= 2
            /\ following[1] = KOMBUVA
            /\ following[2] = DIGA_IS_PILLA
    THEN [combined |-> <<consonant, DIGA_KOMBUVA>>, consumed |-> 2]
    ELSE IF /\ Len(following) >= 1
            /\ following[1] \in {KOMBUVA_HAA_AELA_PILLA,
                                 KOMBUVA_HAA_DIGA_AELA_PILLA,
                                 KOMBUVA_HAA_GAYANUKITTA}
    THEN [combined |-> <<consonant, following[1]>>, consumed |-> 1]
    ELSE IF Len(following) >= 1 /\ following[1] = KOMBUVA
    THEN [combined |-> <<consonant, KOMBUVA>>, consumed |-> 1]
    ELSE [combined |-> <<consonant>>, consumed |-> 0]

\* A loop iteration whose swap case counts the swapped sign twice when it
\* moves the index on.
NormalizeStepCountsSignTwice(chars, i) ==
    IF /\ chars[i + 1] = KOMBUVA
       /\ (i + 1) < Len(chars)
       /\ chars[i + 2] \in SINHALA_CONSONANTS
    THEN [out |-> combine_split_vowel_signs(
                      chars[i + 2],
                      <<chars[i + 1]>> \o Slice(chars, i + 2, i + 4)).combined,
          next |-> i + 2 + combine_split_vowel_signs(
                               chars[i + 2],
                               <<chars[i + 1]>>
                                   \o Slice(chars, i + 2, i + 4)).consumed]
    ELSE IF chars[i + 1] \in SINHALA_CONSONANTS
    THEN [out |-> combine_split_vowel_signs(
                      chars[i + 1], Slice(chars, i + 1, i + 4)).combined,
          next |-> i + 1 + combine_split_vowel_signs(
                               chars[i + 1],
                               Slice(chars, i + 1, i + 4)).consumed]
    ELSE [out |-> <<chars[i + 1]>>, next |-> i + 1]

\* One iteration of the while loop at 0-based index i.
NormalizeStep(chars, i) ==
    LET n == Len(chars)
        current_char == chars[i + 1]
        has_next == (i + 1) < n
    IN  IF /\ current_char = KOMBUVA
           /\ has_next
           /\ chars[i + 2] \in SINHALA_CONSONANTS
        THEN LET remaining == Slice(chars, i + 2, i + 4)
                 c == combine_split_vowel_signs(chars[i + 2],
                                                <<current_char>> \o remaining)
             IN  [out |-> c.combined, next |-> i + 2 + Max(c.consumed - 1, 0)]
        ELSE IF current_char \in SINHALA_CONSONANTS
        THEN LET remaining == Slice(chars, i + 1, i + 4)
                 c == combine_split_vowel_signs(current_char, remaining)
             IN  [out |-> c.combined, next |-> i + 1 + c.consumed]
        ELSE [out |-> <<current_char>>, next |-> i + 1]

RECURSIVE NormalizeFrom(_, _)
NormalizeFrom(chars, i) ==
    IF i >= Len(chars) THEN <<>>
    ELSE LET st == NormalizeStep(chars, i)
         IN  st.out \o NormalizeFrom(chars, st.next)

_normalize_prebase_vowel_signs(word) == NormalizeFrom(word, 0)

(***************************************************************************)
(* LetterMappingService._break_word_letters_option_b                       *)
(***************************************************************************)
\* token.endswith(HAL_KIRIMA) and token[:-1] in SINHALA_CONSONANTS
IsConsonantWithHal(token) ==
    /\ Len(token) >= 1
    /\ token[Len(token)] = HAL_KIRIMA
    /\ Len(token) = 2
    /\ token[1] \in SINHALA_CONSONANTS

\* token in SINHALA_INDEPENDENT_VOWELS (a set of one-character strings)
IsIndependentVowel(token) ==
    Len(token) = 1 /\ token[1] \in SINHALA_INDEPENDENT_VOWELS

\* A reduction step that keeps the inherent vowel as a unit of its own.
ReduceStepKeepInherent(detailed_tokens, i) ==
    IF /\ Len(detailed_tokens[i]) = 2
       /\ detailed_tokens[i][2] = HAL_KIRIMA
       /\ detailed_tokens[i][1] \in SINHALA_CONSONANTS
    THEN IF /\ i + 1 <= Len(detailed_tokens)
            /\ Len(detailed_tokens[i + 1]) = 1
            /\ detailed_tokens[i + 1][1] \in SINHALA_INDEPENDENT_VOWELS
         THEN [out |-> <<<<detailed_tokens[i][1]>>, detailed_tokens[i + 1]>>,
               next |-> i + 2]
         ELSE [out |-> <<<<detailed_tokens[i][1]>>>>, next |-> i + 1]
    ELSE [out |-> <<detailed_tokens[i]>>, next |-> i + 1]

\* One iteration of the reduction loop at index i (1-based) of detailed_tokens.
ReduceStep(detailed_tokens, i) ==
    LET token == detailed_tokens[i]
        m == Len(detailed_tokens)
    IN  IF IsConsonantWithHal(token)
        THEN LET base_consonant == <<token[1]>>
             IN  IF i + 1 <= m /\ IsIndependentVowel(detailed_tokens[i + 1])
                 THEN LET next_token == detailed_tokens[i + 1]
                      IN  IF next_token = <<AYANNA>>
                          THEN [out |-> <<base_consonant>>, next |-> i + 2]
                          ELSE [out |-> <<base_consonant, next_token>>,
                                next |-> i + 2]
                 ELSE [out |-> <<base_consonant>>, next |-> i + 1]
        ELSE IF IsIndependentVowel(token)
        THEN [out |-> <<token>>, next |-> i + 1]
        ELSE [out |-> <<token>>, next |-> i + 1]

RECURSIVE ReduceFrom(_, _)
ReduceFrom(detailed_tokens, i) ==
    IF i > Len(detailed_tokens) THEN <<>>
    ELSE LET st == ReduceStep(detailed_tokens, i)
         IN  st.out \o ReduceFrom(detailed_tokens, st.next)

_break_word_letters_option_b(word) ==
    ReduceFrom(break_word_to_letters(_normalize_prebase_vowel_signs(word)), 1)

(***************************************************************************)
(* LetterMappingService: landmark lookup and get_word_as_letter_sequence   *)
(***************************************************************************)
STR_letter_ == <<108, 101, 116, 116, 101, 114, 95>>
STR_unknown_letter_ ==
    <<117, 110, 107, 110, 111, 119, 110, 95, 108, 101, 116, 116, 101, 114, 95>>
STR_landmark_url ==
    <<47, 97, 112, 105, 47, 116, 114, 97, 110, 115, 108, 97, 116, 101, 47,
      108, 97, 110, 100, 109, 97, 114, 107, 45, 100, 97, 116, 97, 47>>
STR_json == <<46, 106, 115, 111, 110>>

\* self.letter_landmarks.get(letter)
get_letter_landmark(letter) ==
    IF letter \in DOMAIN letter_landmarks THEN letter_landmarks[letter]
    ELSE None

\* Python truth value of loaded JSON data: None and empty containers are false.
Truthy(data) == data # None /\ data # <<>>

\* The body of the for loop: the dictionary appended for one letter.
LetterSign(letter) ==
    IF Truthy(get_letter_landmark(letter))
    THEN [label |-> STR_letter_ \o letter,
          landmark_data |-> STR_landmark_url \o letter \o STR_json,
          media_type |-> "landmarks",
          letter |-> letter]
    ELSE [label |-> STR_unknown_letter_ \o letter,
          landmark_data |-> None,
          media_type |-> "landmarks",
          letter |-> letter]

\* A loop over letters that skips the letters without landmark data.
LetterSignsOfKnown(letters) ==
    LET known == SelectSeq(letters,
                           LAMBDA l : Truthy(get_letter_landmark(l)))
    IN  [k \in DOMAIN known |-> LetterSign(known[k])]

\* The for loop over letters.
LetterSigns(letters) == [k \in DOMAIN letters |-> LetterSign(letters[k])]

get_word_as_letter_sequence(word) ==
    LetterSigns(_break_word_letters_option_b(word))

\* LetterMappingService() raises: os.listdir in _load_letter_landmarks is
\* outside any try and the landmark path is not a directory.
LetterMappingServiceRaises == landmarks_dir = "file"

\* get_letter_mapping_service() raises: there is no instance yet and the
\* constructor raises.
get_letter_mapping_service_raises ==
    _letter_mapping_service = "None" /\ LetterMappingServiceRaises

\* get_letter_mapping_service(): the value of the global after the call.
get_letter_mapping_service ==
    IF get_letter_mapping_service_raises THEN "None"
    ELSE "LetterMappingService"

(***************************************************************************)
(* Python string helpers used by the rule engine.                          *)
(***************************************************************************)
\* str.lower() on one code point (ASCII letters; Sinhala has no case).
LowerChar(c) == IF c \in 65..90 THEN c + 32 ELSE c
Lower(s) == [k \in DOMAIN s |-> LowerChar(s[k])]

\* str.isdigit on one code point: ASCII digits and Sinhala Lith digits.
IsDigit(c) == c \in 48..57 \/ c \in 3558..3567

\* token.replace(",", "")
RemoveCommas(s) == SelectSeq(s, LAMBDA c : c # 44)

(***************************************************************************)
(* SinhalaSignLanguage.__init__: the word table.                           *)
(***************************************************************************)
\* SignLanguage._make_equal_weight_sign_dict: N alternatives, weight 1/N each
\* (a weight is the pair <<numerator, denominator>>).
_make_equal_weight_sign_dict(sequences) ==
    [signs |-> sequences,
     weights |-> [k \in DOMAIN sequences |-> <<1, Len(sequences)>>]]

\* setdefault + append, also of a sequence the word already has.
AddWordAgain(temp, text_word, label) ==
    LET word_lower == Lower(text_word)
        old == IF word_lower \in DOMAIN temp THEN temp[word_lower] ELSE <<>>
    IN  [w \in DOMAIN temp \cup {word_lower} |->
            IF w = word_lower THEN Append(old, <<label>>) ELSE temp[w]]

\* setdefault + append-if-absent of one word of one entry.
AddWord(temp, text_word, label) ==
    LET word_lower == Lower(text_word)
        sign_sequence == <<label>>
        old == IF word_lower \in DOMAIN temp THEN temp[word_lower] ELSE <<>>
        new == IF sign_sequence \in Range(old) THEN old
               ELSE Append(old, sign_sequence)
    IN  [w \in DOMAIN temp \cup {word_lower} |->
            IF w = word_lower THEN new ELSE temp[w]]

RECURSIVE AddWords(_, _, _)
AddWords(temp, words, label) ==
    IF words = <<>> THEN temp
    ELSE AddWords(AddWord(temp, Head(words), label), Tail(words), label)

\* The loop over loaded_custom_data.items(): only the 'si' word lists count.
RECURSIVE TempWordToLabels(_, _)
TempWordToLabels(temp, entries) ==
    IF entries = <<>> THEN temp
    ELSE LET e == Head(entries)
             t == IF "si" \in DOMAIN e.text
                  THEN AddWords(temp, e.text["si"], e.label)
                  ELSE temp
         IN  TempWordToLabels(t, Tail(entries))

BuildWordToSignDict(data) ==
    LET temp == TempWordToLabels(<<>>, data)
    IN  [w \in {x \in DOMAIN temp : temp[x] # <<>>} |->
            _make_equal_weight_sign_dict(temp[w])]

(***************************************************************************)
(* mapping_rules.py and the three rules of SinhalaSignLanguage.            *)
(***************************************************************************)
\* A tag is [list |-> FALSE, v |-> <<t>>] for the single tag t,
\* [list |-> FALSE, v |-> <<>>] for None and [list |-> TRUE, v |-> tags]
\* for a list of tags.
Tag(t) == [list |-> FALSE, v |-> <<t>>]
TagNone == [list |-> FALSE, v |-> <<>>]
TagList(ts) == [list |-> TRUE, v |-> ts]

\* A direct rule that only knows the one-character keys of the table.
DirectRuleOfSingleCharacters(priority, table) ==
    [cls |-> "DirectMappingRule",
     priority |-> priority,
     token_to_object |->
        [w \in {x \in DOMAIN table : Len(x) = 1} |-> <<table[w]>>]]

__get_direct_mapping_rule(priority, table) ==
    [cls |-> "DirectMappingRule",
     priority |-> priority,
     token_to_object |->
        [w \in {x \in DOMAIN table :
                    {"signs", "weights"} \subseteq DOMAIN table[x]} |->
            <<table[w]>>]]

\* A spelling rule whose character table takes every one-character key,
\* whatever its Unicode block.
SpellingRuleOfAnyCharacter(priority, table) ==
    [cls |-> "CharacterByCharacterMappingRule",
     priority |-> priority,
     token_to_object |-> [ch \in {x \in DOMAIN table : Len(x) = 1} |->
                             table[ch]],
     allowed_tags |-> {"DEFAULT", "NAME"}]

__get_sinhala_spelling_rule(priority, table) ==
    LET sinhala_letter_signs ==
            [ch \in {x \in DOMAIN table :
                        /\ Len(x) = 1
                        /\ 3456 <= x[1] /\ x[1] <= 3583
                        /\ "signs" \in DOMAIN table[x]} |-> table[ch]]
    IN  IF DOMAIN sinhala_letter_signs = {}
        THEN [cls |-> "LambdaMappingRule", priority |-> priority,
              fn |-> "never"]
        ELSE [cls |-> "CharacterByCharacterMappingRule",
              priority |-> priority,
              token_to_object |-> sinhala_letter_signs,
              allowed_tags |-> {"DEFAULT", "NAME"}]

__get_number_rule(priority) ==
    [cls |-> "LambdaMappingRule", priority |-> priority, fn |-> "number"]

\* A chunking that keeps every character, digit or not.
chunk_every_character(num_str) ==
    [k \in DOMAIN num_str |-> <<num_str[k]>>]

\* list(filter(str.isdigit, num_str)): one one-character string per digit.
chunk_number_simple(num_str) ==
    LET digits == SelectSeq(num_str, IsDigit)
    IN  [k \in DOMAIN digits |-> <<digits[k]>>]

\* sorted(rules, key=lambda rule: rule.priority): stable, ascending.
RECURSIVE InsertByPriority(_, _)
InsertByPriority(sorted, rule) ==
    IF sorted = <<>> THEN <<rule>>
    ELSE IF Head(sorted).priority <= rule.priority
    THEN <<Head(sorted)>> \o InsertByPriority(Tail(sorted), rule)
    ELSE <<rule>> \o sorted

\* The rules in descending order of priority number.
RECURSIVE SortedDescending(_)
SortedDescending(rules) ==
    IF rules = <<>> THEN <<>>
    ELSE LET k == CHOOSE i \in DOMAIN rules :
                      \A j \in DOMAIN rules :
                          rules[i].priority >= rules[j].priority
         IN  <<rules[k]>>
             \o SortedDescending(SubSeq(rules, 1, k - 1)
                                 \o SubSeq(rules, k + 1, Len(rules)))

RECURSIVE SortedByPriority(_)
SortedByPriority(rules) ==
    IF rules = <<>> THEN <<>>
    ELSE InsertByPriority(SortedByPriority(SubSeq(rules, 1, Len(rules) - 1)),
                          rules[Len(rules)])

\* rule.is_applicable(token, tag, context)
is_applicable(rule, token, tag, context) ==
    IF rule.cls = "DirectMappingRule"
    THEN token \in DOMAIN rule.token_to_object
    ELSE IF rule.cls = "CharacterByCharacterMappingRule"
    THEN LET tag_is_allowed ==
                 \E k \in DOMAIN tag.v : tag.v[k] \in rule.allowed_tags
             chars_are_mappable ==
                 \A k \in DOMAIN token :
                     <<token[k]>> \in DOMAIN rule.token_to_object
         IN  tag_is_allowed /\ chars_are_mappable
    ELSE IF rule.fn = "number"
    THEN /\ tag = Tag("NUMBER")
         /\ \A d \in Range(chunk_number_simple(token)) :
                d \in DOMAIN word_to_sign_dict
    ELSE FALSE

\* Whether rule.apply(token) raises (a KeyError of a table lookup).
ApplyRaises(rule, token) ==
    IF rule.cls = "DirectMappingRule"
    THEN token \notin DOMAIN rule.token_to_object
    ELSE IF rule.cls = "CharacterByCharacterMappingRule"
    THEN \E k \in DOMAIN token :
             <<token[k]>> \notin DOMAIN rule.token_to_object
    ELSE FALSE

\* rule.apply(token), where it does not raise
apply(rule, token) ==
    IF rule.cls = "DirectMappingRule"
    THEN rule.token_to_object[token]
    ELSE IF rule.cls = "CharacterByCharacterMappingRule"
    THEN [k \in DOMAIN token |-> rule.token_to_object[<<token[k]>>]]
    ELSE IF rule.fn = "number"
    THEN LET digits == SelectSeq(chunk_number_simple(token),
                                 LAMBDA d : d \in DOMAIN word_to_sign_dict)
         IN  [k \in DOMAIN digits |-> word_to_sign_dict[digits[k]]]
    ELSE <<>>

(***************************************************************************)
(* SinhalaSignLanguage._apply_rules                                        *)
(***************************************************************************)
\* An entry of the call log: rule.is_applicable or rule.apply was called.
Event(ev, rule, token, tag) ==
    [ev |-> ev, cls |-> rule.cls, priority |-> rule.priority,
     token |-> token, tag |-> tag]

\* The for loop over self.mapping_rules from index k on.  A rule whose apply
\* raises is logged and the loop goes on to the next rule; after the last
\* rule ValueError is raised.
RECURSIVE ApplyRulesFrom(_, _, _, _)
ApplyRulesFrom(k, token_lower, tag, context) ==
    IF k > Len(mapping_rules)
    THEN [raised |-> TRUE, result |-> <<>>, log |-> <<>>]
    ELSE LET rule == mapping_rules[k]
             asked == Event("is_applicable", rule, token_lower, tag)
             applied == Event("apply", rule, token_lower, tag)
             rest == ApplyRulesFrom(k + 1, token_lower, tag, context)
         IN  IF is_applicable(rule, token_lower, tag, context)
             THEN IF ApplyRaises(rule, token_lower)
                  THEN [rest EXCEPT !.log = <<asked, applied>> \o @]
                  ELSE [raised |-> FALSE,
                        result |-> apply(rule, token_lower),
                        log |-> <<asked, applied>>]
             ELSE [rest EXCEPT !.log = <<asked>> \o @]

_apply_rules(token, tag, context) ==
    ApplyRulesFrom(1, Lower(token), tag, context)

(***************************************************************************)
(* SinhalaSignLanguage.tokens_to_sign_dicts                                *)
(***************************************************************************)
\* An except-ValueError branch that gives up without trying to spell.
SpellingRetryNever(token, context) ==
    [raised |-> TRUE, result |-> <<>>, log |-> <<>>]

\* The except-ValueError branch for one token: one check of the spelling
\* rule with Tags.DEFAULT, then its apply or the final ValueError.
SpellingRetry(token, context) ==
    LET rule == _sinhala_spelling_rule
        asked == Event("is_applicable", rule, Lower(token), Tag("DEFAULT"))
        applied == Event("apply", rule, Lower(token), Tag("DEFAULT"))
    IN  IF is_applicable(rule, Lower(token), Tag("DEFAULT"), context)
        THEN IF ApplyRaises(rule, Lower(token))
             THEN [raised |-> TRUE, result |-> <<>>, log |-> <<asked, applied>>]
             ELSE [raised |-> FALSE, result |-> apply(rule, Lower(token)),
                   log |-> <<asked, applied>>]
        ELSE [raised |-> TRUE, result |-> <<>>, log |-> <<asked>>]

\* One token of the for loop: its sign dicts or the ValueError, and the per
\* token record (what _apply_rules did, whether and how the retry ran).
TokenOutcome(token, tag, first, retry) ==
    IF ~first.raised
    THEN [raised |-> FALSE, result |-> first.result,
          rec |-> [token |-> token, tag |-> tag, rules |-> first.log,
                   retry |-> <<>>, raised |-> FALSE,
                   result |-> first.result]]
    ELSE [raised |-> retry.raised, result |-> retry.result,
          rec |-> [token |-> token, tag |-> tag, rules |-> first.log,
                   retry |-> retry.log, raised |-> retry.raised,
                   result |-> retry.result]]

ResolveToken(token, tag, context) ==
    TokenOutcome(token, tag, _apply_rules(token, tag, context),
                 SpellingRetry(token, context))

\* The for loop over zip(tokens, tags, contexts) from position k to n.
\* sign_dicts_list.extend(...) and on to the next token, or the ValueError
\* of this token, which ends the call.
ExtendOrRaise(one, rest) ==
    IF one.raised
    THEN [raised |-> TRUE, result |-> <<>>, log |-> <<one.rec>>]
    ELSE [raised |-> rest.raised,
          result |-> IF rest.raised THEN <<>> ELSE one.result \o rest.result,
          log |-> <<one.rec>> \o rest.log]

RECURSIVE ResolveFrom(_, _, _, _, _)
ResolveFrom(k, n, tokens, tags, contexts) ==
    IF k > n THEN [raised |-> FALSE, result |-> <<>>, log |-> <<>>]
    ELSE ExtendOrRaise(ResolveToken(tokens[k], tags[k], contexts[k]),
                       ResolveFrom(k + 1, n, tokens, tags, contexts))

\* tags and contexts: None and the empty list are both the empty sequence
\* (the code tests `not tags`, `not contexts`).
ResolveZip(tokens, tags, contexts) ==
    ResolveFrom(1, Min(Len(tokens), Min(Len(tags), Len(contexts))),
                tokens, tags, contexts)

tokens_to_sign_dicts(tokens, tags, contexts) ==
    ResolveZip(tokens,
               IF tags = <<>>
               THEN [k \in DOMAIN tokens |-> Tag("DEFAULT")] ELSE tags,
               IF contexts = <<>>
               THEN [k \in DOMAIN tokens |-> "None"] ELSE contexts)

(***************************************************************************)
(* SinhalaSignLanguage.restructure_sentence and __call__                   *)
(***************************************************************************)
STOPWORDS ==
    {<<3523, 3524>>, <<3524, 3535>>, <<3520, 3545, 3501>>,
     <<3520, 3545, 3501, 3495>>, <<3501, 3540, 3525>>, <<4752, 4813>>,
     <<3520, 3546>>}

\* A loop body that passes on the lowercased text of the token.
RestructureStepLowered(token, current_tag, current_context, rest) ==
    IF Lower(token) \in STOPWORDS THEN rest
    ELSE IF current_tag.list
    THEN [raised |-> TRUE, tokens |-> <<>>, tags |-> <<>>, contexts |-> <<>>]
    ELSE IF current_tag \in {Tag("SPACE"), Tag("PUNCTUATION")} THEN rest
    ELSE IF rest.raised THEN rest
    ELSE [raised |-> FALSE,
          tokens |-> <<IF current_tag = Tag("NUMBER")
                       THEN RemoveCommas(Lower(token)) ELSE Lower(token)>>
                     \o rest.tokens,
          tags |-> <<current_tag>> \o rest.tags,
          contexts |-> <<current_context>> \o rest.contexts]

\* A loop body that lets the tokens tagged Space through.
RestructureStepKeepSpace(token, current_tag, current_context, rest) ==
    IF Lower(token) \in STOPWORDS THEN rest
    ELSE IF current_tag.list
    THEN [raised |-> TRUE, tokens |-> <<>>, tags |-> <<>>, contexts |-> <<>>]
    ELSE IF current_tag = Tag("PUNCTUATION") THEN rest
    ELSE IF rest.raised THEN rest
    ELSE [raised |-> FALSE,
          tokens |-> <<IF current_tag = Tag("NUMBER")
                       THEN RemoveCommas(token) ELSE token>> \o rest.tokens,
          tags |-> <<current_tag>> \o rest.tags,
          contexts |-> <<current_context>> \o rest.contexts]

\* The for loop over enumerate(sentence) from index i (1-based) on.  A list
\* used as a tag is unhashable: the set membership test raises TypeError.
\* One iteration of the for loop, given what the later iterations append.
RestructureStep(token, current_tag, current_context, rest) ==
    IF Lower(token) \in STOPWORDS THEN rest
    ELSE IF current_tag.list
    THEN [raised |-> TRUE, tokens |-> <<>>, tags |-> <<>>, contexts |-> <<>>]
    ELSE IF current_tag \in {Tag("SPACE"), Tag("PUNCTUATION")} THEN rest
    ELSE IF rest.raised THEN rest
    ELSE [raised |-> FALSE,
          tokens |-> <<IF current_tag = Tag("NUMBER")
                       THEN RemoveCommas(token) ELSE token>> \o rest.tokens,
          tags |-> <<current_tag>> \o rest.tags,
          contexts |-> <<current_context>> \o rest.contexts]

RECURSIVE RestructureFrom(_, _, _, _)
RestructureFrom(i, sentence, tags, contexts) ==
    IF i > Len(sentence)
    THEN [raised |-> FALSE, tokens |-> <<>>, tags |-> <<>>, contexts |-> <<>>]
    ELSE RestructureStep(sentence[i],
                         IF i <= Len(tags) THEN tags[i] ELSE Tag("DEFAULT"),
                         IF i <= Len(contexts) THEN contexts[i] ELSE "None",
                         RestructureFrom(i + 1, sentence, tags, contexts))

restructure_sentence(sentence, tags, contexts) ==
    RestructureFrom(1, sentence, tags, contexts)

\* SinhalaSignLanguage.__call__
ResolveRestructured(r) ==
    IF r.raised THEN [raised |-> TRUE, result |-> <<>>, log |-> <<>>]
    ELSE tokens_to_sign_dicts(r.tokens, r.tags, r.contexts)

SignLanguageCall(tokens, tags, contexts) ==
    ResolveRestructured(restructure_sentence(tokens, tags, contexts))

(***************************************************************************)
(* SinhalaTextLanguage: preprocess, tokenize, get_tags                     *)
(***************************************************************************)
allowed_characters ==
    (32..33) \cup {44, 46, 63} \cup (48..57) \cup (65..90) \cup (97..122)
    \cup (3458..3459) \cup (3461..3478) \cup (3482..3505) \cup (3507..3512)
    \cup (3514..3515) \cup {3517} \cup (3520..3526) \cup {3530}
    \cup (3535..3540) \cup {3542} \cup (3544..3550) \cup {3572}

RECURSIVE LStrip(_)
LStrip(s) == IF s # <<>> /\ Head(s) = 32 THEN LStrip(Tail(s)) ELSE s

RECURSIVE RStrip(_)
RStrip(s) ==
    IF s # <<>> /\ s[Len(s)] = 32 THEN RStrip(SubSeq(s, 1, Len(s) - 1)) ELSE s

preprocess(text) ==
    RStrip(LStrip(SelectSeq(Lower(text), LAMBDA c : c \in allowed_characters)))

\* text.split(): the maximal runs of non-space characters (cur is the run
\* being read).
RECURSIVE SplitFrom(_, _)
SplitFrom(s, cur) ==
    IF s = <<>> THEN (IF cur = <<>> THEN <<>> ELSE <<cur>>)
    ELSE IF Head(s) = 32
    THEN (IF cur = <<>> THEN <<>> ELSE <<cur>>) \o SplitFrom(Tail(s), <<>>)
    ELSE SplitFrom(Tail(s), Append(cur, Head(s)))

tokenize(text) == SplitFrom(text, <<>>)

get_tags(tokens) == [k \in DOMAIN tokens |-> Tag("UNKNOWN")]

(***************************************************************************)
(* translation_service.py                                                  *)
(***************************************************************************)
SINHALA_COMBINING_MARKS_SET ==
    {3530, 3535, 3536, 3537, 3538, 3539, 3540, 3542, 3544, 3545, 3546, 3547,
     3548, 3549, 3550, 3570}

STR_to_sinhala_sl ==
    <<95, 116, 111, 95, 115, 105, 110, 104, 97, 108, 97, 45, 115, 108>>
STR_si == <<115, 105>>
STR_en == <<101, 110>>
STR_https == <<104, 116, 116, 112, 115, 58>>

\* label.startswith("letter_")
StartsWithLetter_(label) ==
    /\ Len(label) >= Len(STR_letter_)
    /\ SubSeq(label, 1, Len(STR_letter_)) = STR_letter_

\* s3_client.generate_presigned_url(...) for an object key, inside
\* try/except: the field stays None when the client raises.
PresignedUrl(key) ==
    IF s3_client = "raises" THEN None ELSE STR_https \o key

\* entry.get(field) of the mapping entry recorded under label, if any
MappingEntries(label) ==
    {k \in DOMAIN loaded_custom_data : loaded_custom_data[k].label = label}

\* CustomSinhalaConcatenativeSynthesis._get_available_formats
_get_available_formats(label) ==
    LET found == MappingEntries(label)
        entry == loaded_custom_data[CHOOSE k \in found : TRUE]
        url(key) == IF found # {} /\ key # None /\ key # <<>>
                       /\ s3_client # "None"
                    THEN PresignedUrl(key) ELSE None
    IN  [label |-> label,
         video_path |-> IF found = {} THEN None ELSE url(entry.video_path),
         animation_path |->
            IF found = {} THEN None ELSE url(entry.animation_path),
         landmark_data |->
            IF found = {} THEN None ELSE url(entry.landmark_data)]

\* CustomSinhalaConcatenativeSynthesis._map_labels_to_sign
_map_labels_to_sign(video_labels) ==
    [k \in DOMAIN video_labels |-> _get_available_formats(video_labels[k])]

\* CustomSinhalaConcatenativeSynthesis._get_letter_fallback
_get_letter_fallback(word) ==
    IF get_letter_mapping_service_raises THEN <<>>
    ELSE get_word_as_letter_sequence(word)

_has_sinhala_combining_marks(token) ==
    \E k \in DOMAIN token : token[k] \in SINHALA_COMBINING_MARKS_SET

_expected_option_b_len(token) ==
    IF get_letter_mapping_service_raises THEN 0
    ELSE Len(get_word_as_letter_sequence(token))

(***************************************************************************)
(* model(text): ConcatenativeSynthesis.translate around the sign language  *)
(***************************************************************************)
\* The sign dicts of a rule-engine run, each with the token it came from.
RECURSIVE WithOrigin(_)
WithOrigin(recs) ==
    IF recs = <<>> THEN <<>>
    ELSE LET r == Head(recs)
         IN  [k \in DOMAIN r.result |-> [sd |-> r.result[k], token |-> r.token]]
             \o WithOrigin(Tail(recs))

\* Every way of picking one alternative per sign dict: the sequences of
\* [label, token] the model may go on with.
RECURSIVE LabelChoices(_)
LabelChoices(sds) ==
    IF sds = <<>> THEN {<<>>}
    ELSE LET h == Head(sds)
             heads == {[k \in DOMAIN h.sd.signs[a] |->
                           [label |-> h.sd.signs[a][k], token |-> h.token]] :
                       a \in DOMAIN h.sd.signs}
         IN  {x \o y : x \in heads, y \in LabelChoices(Tail(sds))}

\* What model(text) may return: it raises, or returns the signs (with the
\* token each sign came from, which the caller does not see).
SignsOfRun(r) ==
    IF r.raised
    THEN {[raised |-> TRUE, signs |-> <<>>, origin |-> <<>>]}
    ELSE {[raised |-> FALSE,
           signs |-> _map_labels_to_sign([k \in DOMAIN c |-> c[k].label]),
           origin |-> [k \in DOMAIN c |-> c[k].token]] :
          c \in LabelChoices(WithOrigin(r.log))}

TranslateTokens(tokens) ==
    SignsOfRun(SignLanguageCall(tokens, get_tags(tokens), <<>>))

ModelOutcomes(text) == TranslateTokens(tokenize(preprocess(text)))

\* The entries the loop of translate_text_to_slsl guards against: an entry
\* that is not a dict (of its fields only the marker means anything; the
\* others stand for what the loop never reads) and a dict whose label is
\* the empty string.
NotADict ==
    [not_a_dict |-> TRUE, label |-> <<>>, video_path |-> None,
     animation_path |-> None, landmark_data |-> None]
EmptyLabelSign ==
    [label |-> <<>>, video_path |-> None, animation_path |-> None,
     landmark_data |-> None]

\* The outcomes of the model with one such entry before or after its signs.
WithGuardedEntry(outcomes) ==
    {[raised |-> FALSE, signs |-> <<f>> \o o.signs,
      origin |-> <<<<>>>> \o o.origin] :
        f \in {NotADict, EmptyLabelSign},
        o \in {x \in outcomes : ~x.raised}}
    \cup
    {[raised |-> FALSE, signs |-> o.signs \o <<f>>,
      origin |-> o.origin \o <<<<>>>>] :
        f \in {NotADict, EmptyLabelSign},
        o \in {x \in outcomes : ~x.raised}}

(***************************************************************************)
(* translate_text_to_slsl                                                  *)
(***************************************************************************)
\* `if letter_signs:` extend by them, else append the sign itself.
OrKeep(letter_signs, sign_info) ==
    IF letter_signs # <<>> THEN letter_signs ELSE <<sign_info>>

\* An override that appends the letter signs and then, the `continue`
\* missing, the sign itself as well.
OverrideAndKeep(expected_len, sign_info) ==
    IF expected_len > 1
    THEN get_word_as_letter_sequence(sign_info.label) \o <<sign_info>>
    ELSE <<sign_info>>

\* `if expected_len > 1:` extend by the letter signs of the label if
\* there are any; else, and when the heuristic fails, append the sign.
OverrideOrKeep(expected_len, sign_info) ==
    IF expected_len > 1
    THEN OrKeep(get_word_as_letter_sequence(sign_info.label), sign_info)
    ELSE <<sign_info>>

\* The body of the for loop over signs_data: what one sign contributes to
\* enhanced_signs_data.
EnhanceSign(sign_info) ==
    LET label == sign_info.label
        has_video == sign_info.video_path # None
        has_animation == sign_info.animation_path # None
        has_landmarks == sign_info.landmark_data # None
    IN  IF "not_a_dict" \in DOMAIN sign_info THEN <<sign_info>>
        ELSE IF /\ ~has_video /\ ~has_animation /\ ~has_landmarks
                /\ label # <<>>
                /\ ~StartsWithLetter_(label)
        THEN OrKeep(_get_letter_fallback(label), sign_info)
        ELSE IF /\ label # <<>>
                /\ ~StartsWithLetter_(label)
                /\ _has_sinhala_combining_marks(label)
        THEN OverrideOrKeep(_expected_option_b_len(label), sign_info)
        ELSE <<sign_info>>

\* Whether the loop body calls get_letter_mapping_service() for this sign.
SignUsesService(sign_info) ==
    LET label == sign_info.label
    IN  /\ label # <<>>
        /\ ~StartsWithLetter_(label)
        /\ \/ /\ sign_info.video_path = None
              /\ sign_info.animation_path = None
              /\ sign_info.landmark_data = None
           \/ _has_sinhala_combining_marks(label)

\* translate_text_to_slsl(text, source_language_code), given what the model
\* returns if it is called: the result and what was done on the way.
Untouched ==
    [shortcut |-> FALSE, model_called |-> FALSE, service_used |-> FALSE,
     signs_data |-> <<>>, origin |-> <<>>, segments |-> <<>>]

\* The for loop over signs_data and `return {"signs": enhanced_signs_data}`.
EnhanceAll(text, outcome, segments) ==
    [ret |-> [kind |-> "signs", code |-> "", signs |-> Concat(segments)],
     trace |-> [shortcut |-> FALSE, model_called |-> TRUE,
                service_used |->
                    \/ _has_sinhala_combining_marks(text)
                    \/ \E k \in DOMAIN outcome.signs :
                           SignUsesService(outcome.signs[k]),
                signs_data |-> outcome.signs,
                origin |-> outcome.origin,
                segments |-> segments]]

\* The try block: the check on the whole text before the model, then the
\* model call and the loop; letter_signs is what the letter service answers
\* for the whole text.
TryTranslate(text, letter_signs, outcome) ==
    IF /\ _has_sinhala_combining_marks(text)
       /\ _expected_option_b_len(text) > 3
       /\ letter_signs # <<>>
    THEN [ret |-> [kind |-> "signs", code |-> "", signs |-> letter_signs],
          trace |-> [Untouched EXCEPT !.shortcut = TRUE,
                                      !.service_used = TRUE]]
    ELSE IF outcome.raised
    THEN [ret |-> [kind |-> "error", code |-> "", signs |-> <<>>],
          trace |-> [Untouched EXCEPT
                        !.model_called = TRUE,
                        !.service_used = _has_sinhala_combining_marks(text)]]
    ELSE EnhanceAll(text, outcome,
                    [k \in DOMAIN outcome.signs |->
                        EnhanceSign(outcome.signs[k])])

\* A variant without the `if not models` test.
translate_without_service_test(text, source_language_code, outcome) ==
    IF (source_language_code \o STR_to_sinhala_sl) \notin models
    THEN [ret |-> [kind |-> "error", code |-> "MODEL_MISSING",
                   signs |-> <<>>],
          trace |-> Untouched]
    ELSE TryTranslate(text, get_word_as_letter_sequence(text), outcome)

translate_text_to_slsl(text, source_language_code, outcome) ==
    IF models = {}
    THEN [ret |-> [kind |-> "error", code |-> "SERVICE_UNAVAILABLE",
                   signs |-> <<>>],
          trace |-> Untouched]
    ELSE IF (source_language_code \o STR_to_sinhala_sl) \notin models
    THEN [ret |-> [kind |-> "error", code |-> "MODEL_MISSING",
                   signs |-> <<>>],
          trace |-> Untouched]
    ELSE TryTranslate(text, get_word_as_letter_sequence(text), outcome)

(***************************************************************************)
(* Start-up: the dictionary file, the landmark directory, the models.      *)
(***************************************************************************)
KA == 3482     \* U+0D9A, a consonant
MA == 3512     \* U+0DB8, a consonant

\* One entry of lk-dictionary-mapping.json: its key and its value.
Entry(label, text, video_path) ==
    [label |-> label, text |-> text, video_path |-> video_path,
     animation_path |-> None, landmark_data |-> None]

\* A dictionary for the rule engine: the letter KA (under two labels), a
\* word spelt with it, the digit 9, the number 99, an entry without 'si'
\* and the letter MA.
DictionaryA ==
    <<Entry(<<108, 107, 49>>, [si |-> <<<<KA>>>>, en |-> <<<<75, 97>>>>],
            <<49, 46, 109, 112, 52>>),
      Entry(<<108, 107, 50>>, [si |-> <<<<KA, KA>>>>], <<50, 46, 109, 112, 52>>),
      Entry(<<108, 107, 51>>, [si |-> <<<<57>>>>], None),
      Entry(<<108, 107, 52>>, [si |-> <<<<57, 57>>, <<57, 57>>>>], None),
      Entry(<<108, 107, 53>>, [si |-> <<<<KA>>>>], None),
      Entry(<<108, 107, 54>>, [en |-> <<<<65>>>>], None),
      Entry(<<108, 107, 55>>, [si |-> <<<<MA>>>>], None)>>

\* A dictionary without any single Sinhala letter: words only.
DictionaryB ==
    <<Entry(<<108, 107, 50>>, [si |-> <<<<KA, KA>>>>], <<50, 46, 109, 112, 52>>),
      Entry(<<108, 107, 51>>, [si |-> <<<<57>>>>], None)>>

\* A dictionary for the translation service: words with combining marks
\* under plain labels (with and without a video), and a label that itself
\* is Sinhala text.
DictionaryC ==
    <<Entry(<<108, 107, 49>>, [si |-> <<<<KA, DIGA_IS_PILLA>>>>],
            <<49, 46, 109, 112, 52>>),
      Entry(<<108, 107, 50>>,
            [si |-> <<<<KA, DIGA_IS_PILLA, KA, DIGA_IS_PILLA>>>>],
            <<50, 46, 109, 112, 52>>),
      Entry(<<KA, DIGA_IS_PILLA, KA>>, [si |-> <<<<KA>>>>],
            <<51, 46, 109, 112, 52>>),
      Entry(<<108, 107, 52>>, [si |-> <<<<KA, KA>>>>], None)>>

\* The landmark directory: file stem -> loaded JSON (<<>> is an empty JSON
\* container, <<1>> stands for recorded frames).
LandmarksA == <<KA>> :> <<1>> @@ <<AYANNA>> :> <<1>> @@ <<3466>> :> <<>>
LandmarksNone == <<>>

BuildMappingRules(table) ==
    SortedByPriority(<<__get_direct_mapping_rule(1, table),
                       __get_sinhala_spelling_rule(5, table),
                       __get_number_rule(3)>>)

StartupAt(data, dir, landmarks, loaded, s3) ==
    /\ loaded_custom_data = data
    /\ word_to_sign_dict = BuildWordToSignDict(data)
    /\ mapping_rules = BuildMappingRules(BuildWordToSignDict(data))
    /\ _sinhala_spelling_rule =
           __get_sinhala_spelling_rule(5, BuildWordToSignDict(data))
    /\ landmarks_dir = dir
    /\ letter_landmarks = landmarks
    /\ _letter_mapping_service = "None"
    /\ models = loaded
    /\ s3_client = s3
    /\ pc = "idle"
    /\ op = "none"
    /\ arg = <<>>
    /\ ret = <<>>
    /\ trace = <<>>

\* Start-up with the landmark path a directory and no S3 client.
Startup(data, landmarks, loaded) ==
    StartupAt(data, "directory", landmarks, loaded, "None")

tables == <<loaded_custom_data, word_to_sign_dict, mapping_rules,
            _sinhala_spelling_rule, landmarks_dir, letter_landmarks, models,
            s3_client>>

\* The caller takes the result; the process is ready for the next call.
Return ==
    /\ pc = "done"
    /\ pc' = "idle"
    /\ op' = "none"
    /\ arg' = <<>>
    /\ ret' = <<>>
    /\ trace' = <<>>
    /\ UNCHANGED <<tables, _letter_mapping_service>>

(***************************************************************************)
(* The letter service, called with every word up to MaxWordLen.            *)
(***************************************************************************)
WordAlphabet ==
    {KA, MA, AELA_PILLA, DIGA_IS_PILLA, KOMBUVA, KOMBUVA_HAA_AELA_PILLA,
     HAL_KIRIMA, AYANNA, 3466, 49}
Words == SeqsUpTo(WordAlphabet, MaxWordLen)

\* A call runs to its return: the caller sees the result, and the steps the
\* call went through are kept in trace.
Called(name, a, r, t) ==
    /\ pc' = "done"
    /\ op' = name
    /\ arg' = a
    /\ ret' = r
    /\ trace' = t

Call_break_word_to_letters ==
    /\ pc = "idle"
    /\ \E word \in Words :
           Called("break_word_to_letters", [word |-> word],
                  break_word_to_letters(word), BreakScan(word, 1))
    /\ _letter_mapping_service' = get_letter_mapping_service
    /\ UNCHANGED tables

Call_break_word_letters_option_b ==
    /\ pc = "idle"
    /\ \E word \in Words :
           Called("_break_word_letters_option_b", [word |-> word],
                  _break_word_letters_option_b(word),
                  [normalized_word |-> _normalize_prebase_vowel_signs(word),
                   detailed_tokens |->
                       break_word_to_letters(
                           _normalize_prebase_vowel_signs(word))])
    /\ _letter_mapping_service' = get_letter_mapping_service
    /\ UNCHANGED tables

Call_get_word_as_letter_sequence ==
    /\ pc = "idle"
    /\ \E word \in Words :
           Called("get_word_as_letter_sequence", [word |-> word],
                  get_word_as_letter_sequence(word),
                  [letters |-> _break_word_letters_option_b(word)])
    /\ _letter_mapping_service' = get_letter_mapping_service
    /\ UNCHANGED tables

InitLetters ==
    \E landmarks \in {LandmarksA, LandmarksNone} :
        Startup(DictionaryA, landmarks, {})

NextLetters ==
    \/ Call_break_word_to_letters
    \/ Call_break_word_letters_option_b
    \/ Call_get_word_as_letter_sequence
    \/ Return

SpecLetters == InitLetters /\ [][NextLetters]_vars

(***************************************************************************)
(* The rule engine, called with tagged tokens.                             *)
(***************************************************************************)
TokenAlphabet == {KA, MA, 57, 44, 65}
Tokens == SeqsUpTo(TokenAlphabet, MaxTokenLen)
TokenTags ==
    {Tag("DEFAULT"), Tag("NUMBER"), Tag("NAME"), Tag("UNKNOWN"), TagNone,
     TagList(<<"UNKNOWN", "NAME">>)}

SentenceTokens == {<<KA>>, <<MA, KA>>, <<KA, KA>>, <<57, 57>>}
SentenceTags == {Tag("DEFAULT"), Tag("NUMBER"), Tag("UNKNOWN")}

CalledRules(name, a, r) ==
    Called(name, a, [raised |-> r.raised, result |-> r.result], r.log)

\* An _apply_rules that leaves the rule list in another order behind.
Call__apply_rules_reordering ==
    /\ pc = "idle"
    /\ \E token \in Tokens, tag \in TokenTags :
           CalledRules("_apply_rules", [token |-> token, tag |-> tag],
                       _apply_rules(token, tag, "None"))
    /\ mapping_rules' = SortedDescending(mapping_rules)
    /\ UNCHANGED <<loaded_custom_data, word_to_sign_dict,
                   _sinhala_spelling_rule, landmarks_dir, letter_landmarks,
                   models, s3_client, _letter_mapping_service>>

Call__apply_rules ==
    /\ pc = "idle"
    /\ \E token \in Tokens, tag \in TokenTags :
           CalledRules("_apply_rules", [token |-> token, tag |-> tag],
                       _apply_rules(token, tag, "None"))
    /\ UNCHANGED <<tables, _letter_mapping_service>>

Call_tokens_to_sign_dicts ==
    /\ pc = "idle"
    /\ \E tokens \in SeqsUpTo(SentenceTokens, MaxTokens),
          tags \in SeqsUpTo(SentenceTags, MaxTokens),
          contexts \in SeqsUpTo({"None"}, MaxTokens) :
           CalledRules("tokens_to_sign_dicts",
                       [tokens |-> tokens, tags |-> tags,
                        contexts |-> contexts],
                       tokens_to_sign_dicts(tokens, tags, contexts))
    /\ UNCHANGED <<tables, _letter_mapping_service>>

\* Sentences for restructure_sentence: a letter, the stopword 'saha', a
\* number with a grouping comma and a capital letter with a comma; tag and
\* context lists may be shorter or longer than the sentence.
RestructureTokens == {<<KA>>, <<3523, 3524>>, <<57, 44>>, <<65, 44>>}
RestructureTags ==
    {Tag("DEFAULT"), Tag("NUMBER"), Tag("SPACE"), Tag("PUNCTUATION"),
     TagList(<<"UNKNOWN", "NAME">>)}
RestructureContexts == {"None", "c"}

Call_restructure_sentence ==
    /\ pc = "idle"
    /\ \E sentence \in SeqsUpTo(RestructureTokens, MaxTokens),
          tags \in SeqsUpTo(RestructureTags, MaxTokens),
          contexts \in SeqsUpTo(RestructureContexts, MaxTokens) :
           Called("restructure_sentence",
                  [sentence |-> sentence, tags |-> tags,
                   contexts |-> contexts],
                  restructure_sentence(sentence, tags, contexts),
                  <<>>)
    /\ UNCHANGED <<tables, _letter_mapping_service>>

\* __call__: restructure_sentence, then tokens_to_sign_dicts on its result.
Call___call__ ==
    /\ pc = "idle"
    /\ \E tokens \in SeqsUpTo(SentenceTokens \cup {<<3523, 3524>>}, MaxTokens),
          tags \in SeqsUpTo(SentenceTags \cup {Tag("SPACE")}, MaxTokens) :
           CalledRules("__call__",
                       [tokens |-> tokens, tags |-> tags, contexts |-> <<>>],
                       SignLanguageCall(tokens, tags, <<>>))
    /\ UNCHANGED <<tables, _letter_mapping_service>>

InitRules ==
    \E data \in {DictionaryA, DictionaryB, <<>>} :
        Startup(data, LandmarksA, {})

NextRules ==
    \/ Call__apply_rules
    \/ Call_tokens_to_sign_dicts
    \/ Call_restructure_sentence
    \/ Call___call__
    \/ Return

SpecRules == InitRules /\ [][NextRules]_vars

(***************************************************************************)
(* The translation service, called with every text up to MaxTextLen.       *)
(***************************************************************************)
TextAlphabet == {KA, DIGA_IS_PILLA, 32}
Texts == SeqsUpTo(TextAlphabet, MaxTextLen)

CalledTranslate(a, r) ==
    /\ Called("translate_text_to_slsl", a, r.ret, r.trace)
    /\ _letter_mapping_service' =
           IF r.trace.service_used THEN get_letter_mapping_service
           ELSE _letter_mapping_service

Call_translate_text_to_slsl ==
    /\ pc = "idle"
    /\ \E text \in Texts, source_language_code \in {STR_si, STR_en} :
           \E outcome \in ModelOutcomes(text)
                           \cup WithGuardedEntry(ModelOutcomes(text)) :
               CalledTranslate(
                   [text |-> text,
                    source_language_code |-> source_language_code],
                   translate_text_to_slsl(text, source_language_code, outcome))
    /\ UNCHANGED tables

InitTranslate ==
    \E loaded \in {{}, {STR_si \o STR_to_sinhala_sl}},
       dir \in {"directory", "file"},
       s3 \in {"None", "answers", "raises"} :
        StartupAt(DictionaryC, dir,
                  IF dir = "directory" THEN LandmarksA ELSE LandmarksNone,
                  loaded, s3)

NextTranslate ==
    \/ Call_translate_text_to_slsl
    \/ Return

SpecTranslate == InitTranslate /\ [][NextTranslate]_vars

(***************************************************************************)
(* The letter service under repeated and overlapping calls.  The server    *)
(* handles requests in threads, so calls of break_word_to_letters and      *)
(* _break_word_letters_option_b on the one service instance interleave     *)
(* loop iteration by loop iteration.  Each call has its own locals; here   *)
(*   pc[c]    where caller c is: "idle", in the loop of                    *)
(*            _normalize_prebase_vowel_signs ("normalize"), of             *)
(*            break_word_to_letters ("break"), of the reduction            *)
(*            ("reduce"), or returned ("done")                             *)
(*   op[c]    the function c called                                        *)
(*   arg[c]   its word and the locals of the loop it is in: the string or  *)
(*            list the loop walks, the index i and the list it appends to  *)
(*   ret[c]   what the call returned                                       *)
(*   trace    the calls that returned, in the order of their returns       *)
(***************************************************************************)
MaxCalls == 3
MaxCallers == 2
Callers == 1 .. MaxCallers

RepeatWords ==
    {<<KA>>, <<KOMBUVA, KA>>, <<KA, KOMBUVA, AELA_PILLA>>, <<KA, HAL_KIRIMA>>}

\* The calls started so far: those that returned (each is in trace, taken
\* or not) and those still in one of their loops.
CallsStarted ==
    Len(trace) + Cardinality({c \in Callers : pc[c] \notin {"idle", "done"}})

\* Locals of a loop whose output list lives on after the call (a default
\* argument or an attribute of the service): it starts from the list the
\* latest returned call left.
LocalsOnKeptList(input, first) ==
    [input |-> input, i |-> first,
     out |-> IF trace = <<>> THEN <<>> ELSE trace[Len(trace)].result]

\* The locals a loop starts with: `decomposed = []` / `output = []` /
\* `result_letters = []`, `i = 0`, and the string or list it walks.
FreshLocals(input, first) == [input |-> input, i |-> first, out |-> <<>>]

NoLocals == [input |-> <<>>, i |-> 0, out |-> <<>>]

\* A request calls break_word_to_letters(word).
Enter_break_word_to_letters(c) ==
    /\ pc[c] = "idle"
    /\ CallsStarted < MaxCalls
    /\ \E word \in RepeatWords :
           arg' = [arg EXCEPT ![c] =
                      [word |-> word, locals |-> FreshLocals(word, 1)]]
    /\ op' = [op EXCEPT ![c] = "break_word_to_letters"]
    /\ pc' = [pc EXCEPT ![c] = "break"]
    /\ UNCHANGED <<tables, _letter_mapping_service, ret, trace>>

\* A request calls _break_word_letters_option_b(word), which starts with
\* _normalize_prebase_vowel_signs(word).
Enter__break_word_letters_option_b(c) ==
    /\ pc[c] = "idle"
    /\ CallsStarted < MaxCalls
    /\ \E word \in RepeatWords :
           arg' = [arg EXCEPT ![c] =
                      [word |-> word, locals |-> FreshLocals(word, 0)]]
    /\ op' = [op EXCEPT ![c] = "_break_word_letters_option_b"]
    /\ pc' = [pc EXCEPT ![c] = "normalize"]
    /\ UNCHANGED <<tables, _letter_mapping_service, ret, trace>>

\* The call of c returns result.
Returns(c, result) ==
    /\ pc' = [pc EXCEPT ![c] = "done"]
    /\ ret' = [ret EXCEPT ![c] = result]
    /\ arg' = [arg EXCEPT ![c].locals = NoLocals]
    /\ trace' = Append(trace, [op |-> op[c], word |-> arg[c].word,
                               result |-> result])

\* One iteration of the loop of _normalize_prebase_vowel_signs, or, the
\* loop over, `"".join(output)` handed to break_word_to_letters.
NormalizeIteration(c) ==
    LET l == arg[c].locals
    IN  /\ pc[c] = "normalize"
        /\ IF l.i < Len(l.input)
           THEN /\ arg' = [arg EXCEPT ![c].locals =
                              [l EXCEPT !.out = l.out
                                            \o NormalizeStep(l.input, l.i).out,
                                        !.i = NormalizeStep(l.input, l.i).next]]
                /\ pc' = pc
           ELSE /\ arg' = [arg EXCEPT ![c].locals = FreshLocals(l.out, 1)]
                /\ pc' = [pc EXCEPT ![c] = "break"]
        /\ UNCHANGED <<tables, _letter_mapping_service, op, ret, trace>>

\* One iteration of the loop of break_word_to_letters, or, the loop over,
\* `return decomposed`: to the request, or to _break_word_letters_option_b,
\* which goes on with its own loop over the detailed tokens.
BreakIteration(c) ==
    LET l == arg[c].locals
    IN  /\ pc[c] = "break"
        /\ IF l.i <= Len(l.input)
           THEN /\ arg' = [arg EXCEPT ![c].locals =
                              [l EXCEPT !.out = l.out
                                            \o BreakStep(l.input, l.i).units,
                                        !.i = BreakStep(l.input, l.i).next]]
                /\ UNCHANGED <<pc, ret, trace>>
           ELSE IF op[c] = "break_word_to_letters"
           THEN Returns(c, l.out)
           ELSE /\ arg' = [arg EXCEPT ![c].locals = FreshLocals(l.out, 1)]
                /\ pc' = [pc EXCEPT ![c] = "reduce"]
                /\ UNCHANGED <<ret, trace>>
        /\ UNCHANGED <<tables, _letter_mapping_service, op>>

\* One iteration of the reduction loop, or, the loop over,
\* `return result_letters`.
ReduceIteration(c) ==
    LET l == arg[c].locals
    IN  /\ pc[c] = "reduce"
        /\ IF l.i <= Len(l.input)
           THEN /\ arg' = [arg EXCEPT ![c].locals =
                              [l EXCEPT !.out = l.out
                                            \o ReduceStep(l.input, l.i).out,
                                        !.i = ReduceStep(l.input, l.i).next]]
                /\ UNCHANGED <<pc, ret, trace>>
           ELSE Returns(c, l.out)
        /\ UNCHANGED <<tables, _letter_mapping_service, op>>

\* The request takes the result; the thread is free for the next request.
TakeResult(c) ==
    /\ pc[c] = "done"
    /\ pc' = [pc EXCEPT ![c] = "idle"]
    /\ op' = [op EXCEPT ![c] = "none"]
    /\ arg' = [arg EXCEPT ![c] = [word |-> <<>>, locals |-> NoLocals]]
    /\ ret' = [ret EXCEPT ![c] = <<>>]
    /\ UNCHANGED <<tables, _letter_mapping_service, trace>>

InitRepeat ==
    /\ loaded_custom_data = DictionaryA
    /\ word_to_sign_dict = BuildWordToSignDict(DictionaryA)
    /\ mapping_rules = BuildMappingRules(BuildWordToSignDict(DictionaryA))
    /\ _sinhala_spelling_rule =
           __get_sinhala_spelling_rule(5, BuildWordToSignDict(DictionaryA))
    /\ landmarks_dir = "directory"
    /\ letter_landmarks = LandmarksA
    /\ _letter_mapping_service = "LetterMappingService"
    /\ models = {}
    /\ s3_client = "None"
    /\ pc = [c \in Callers |-> "idle"]
    /\ op = [c \in Callers |-> "none"]
    /\ arg = [c \in Callers |-> [word |-> <<>>, locals |-> NoLocals]]
    /\ ret = [c \in Callers |-> <<>>]
    /\ trace = <<>>

NextRepeat ==
    \E c \in Callers :
        \/ Enter_break_word_to_letters(c)
        \/ Enter__break_word_letters_option_b(c)
        \/ NormalizeIteration(c)
        \/ BreakIteration(c)
        \/ ReduceIteration(c)
        \/ TakeResult(c)

SpecRepeat == InitRepeat /\ [][NextRepeat]_vars

(***************************************************************************)
(* get_letter_mapping_service under concurrent requests.  The Flask        *)
(* server handles each request in a thread of its own; a thread switch can *)
(* fall between any two steps of the accessor: the test of the global, the *)
(* construction, the store to the global and the load for the return.      *)
(* Here pc, arg and ret are per thread: the position of the thread, the    *)
(* instance it constructed (0: none) and the instance its last call        *)
(* returned (0: no call returned yet); trace lists the instances           *)
(* constructed so far and _letter_mapping_service is the instance the      *)
(* global refers to (0: None).                                             *)
(***************************************************************************)
MaxThreads == 3
Threads == 1 .. MaxThreads

\* A request starts a call of get_letter_mapping_service().
Enter_get_letter_mapping_service(t) ==
    /\ pc[t] = "idle"
    /\ pc' = [pc EXCEPT ![t] = "test"]
    /\ arg' = [arg EXCEPT ![t] = 0]
    /\ UNCHANGED <<tables, _letter_mapping_service, op, ret, trace>>

\* if _letter_mapping_service is None:
TestGlobal(t) ==
    /\ pc[t] = "test"
    /\ pc' = [pc EXCEPT ![t] = IF _letter_mapping_service = 0
                                THEN "construct" ELSE "load"]
    /\ UNCHANGED <<tables, _letter_mapping_service, op, arg, ret, trace>>

\* LetterMappingService(): a new instance, not yet stored anywhere.
Construct(t) ==
    /\ pc[t] = "construct"
    /\ trace' = Append(trace, Len(trace) + 1)
    /\ arg' = [arg EXCEPT ![t] = Len(trace) + 1]
    /\ pc' = [pc EXCEPT ![t] = "store"]
    /\ UNCHANGED <<tables, _letter_mapping_service, op, ret>>

\* _letter_mapping_service = <the new instance>
StoreGlobal(t) ==
    /\ pc[t] = "store"
    /\ _letter_mapping_service' = arg[t]
    /\ pc' = [pc EXCEPT ![t] = "load"]
    /\ UNCHANGED <<tables, op, arg, ret, trace>>

\* return _letter_mapping_service
LoadAndReturn(t) ==
    /\ pc[t] = "load"
    /\ ret' = [ret EXCEPT ![t] = _letter_mapping_service]
    /\ pc' = [pc EXCEPT ![t] = "idle"]
    /\ UNCHANGED <<tables, _letter_mapping_service, op, arg, trace>>

InitSingleton ==
    /\ loaded_custom_data = DictionaryA
    /\ word_to_sign_dict = BuildWordToSignDict(DictionaryA)
    /\ mapping_rules = BuildMappingRules(BuildWordToSignDict(DictionaryA))
    /\ _sinhala_spelling_rule =
           __get_sinhala_spelling_rule(5, BuildWordToSignDict(DictionaryA))
    /\ landmarks_dir = "directory"
    /\ letter_landmarks = LandmarksA
    /\ _letter_mapping_service = 0
    /\ models = {}
    /\ s3_client = "None"
    /\ pc = [t \in Threads |-> "idle"]
    /\ op = "get_letter_mapping_service"
    /\ arg = [t \in Threads |-> 0]
    /\ ret = [t \in Threads |-> 0]
    /\ trace = <<>>

NextSingleton ==
    \E t \in Threads :
        \/ Enter_get_letter_mapping_service(t)
        \/ TestGlobal(t)
        \/ Construct(t)
        \/ StoreGlobal(t)
        \/ LoadAndReturn(t)

SpecSingleton == InitSingleton /\ [][NextSingleton]_vars

(***************************************************************************)
(* Properties of the rule engine (SpecRules).                              *)
(***************************************************************************)
\* The rules of mapping_rules that answer is_applicable with true for the
\* token and tag of the call in arg.
ApplicableRules ==
    {k \in DOMAIN mapping_rules :
        is_applicable(mapping_rules[k], Lower(arg.token), arg.tag, "None")}

ApplyEvents(log) == SelectSeq(log, LAMBDA e : e.ev = "apply")

\* The priority number each kind of rule is registered with.
PriorityNumber(rule) ==
    IF rule.cls = "DirectMappingRule" THEN 1
    ELSE IF rule.cls = "LambdaMappingRule" /\ rule.fn = "number" THEN 3
    ELSE 5

\* C1: whenever some rule is applicable to the token of an _apply_rules
\* call, the call returns the result of exactly one rule, the applicable one
\* with the lowest priority number (Direct 1, Number 3, Spelling 5): that
\* rule's apply is the only apply of the call, and no rule with a higher
\* priority number is asked or applied.
C1_LowestPriorityRuleWins ==
    (pc = "done" /\ op = "_apply_rules" /\ ApplicableRules # {}) =>
        \E k \in ApplicableRules :
            /\ \A j \in DOMAIN mapping_rules :
                   mapping_rules[j].priority = PriorityNumber(mapping_rules[j])
            /\ \A j \in ApplicableRules :
                   mapping_rules[k].priority <= mapping_rules[j].priority
            /\ ~ret.raised
            /\ ret.result = apply(mapping_rules[k], Lower(arg.token))
            /\ Len(ApplyEvents(trace)) = 1
            /\ ApplyEvents(trace)[1].priority = mapping_rules[k].priority
            /\ ApplyEvents(trace)[1].cls = mapping_rules[k].cls
            /\ \A e \in Range(trace) :
                   e.priority <= mapping_rules[k].priority

\* C1 witness: a token that both the Direct rule and the spelling rule are
\* applicable to, with different results, has been resolved by the Direct
\* rule.
C1_Witness ==
    /\ pc = "done" /\ op = "_apply_rules"
    /\ \E d, c \in ApplicableRules :
           /\ mapping_rules[d].cls = "DirectMappingRule"
           /\ mapping_rules[c].cls = "CharacterByCharacterMappingRule"
           /\ apply(mapping_rules[d], Lower(arg.token))
                  # apply(mapping_rules[c], Lower(arg.token))
           /\ ret.result = apply(mapping_rules[d], Lower(arg.token))

\* C5: an _apply_rules call on a token (here: a token of at least one
\* character) that does not fail returns a non-empty list of sign dicts; it
\* never returns an empty sequence.
C5_NeverEmptyResult ==
    (pc = "done" /\ op = "_apply_rules" /\ arg.token # <<>> /\ ~ret.raised)
        => ret.result # <<>>

\* No rule of mapping_rules is applicable to the token under the tag.
NoRuleApplies(token, tag) ==
    \A k \in DOMAIN mapping_rules :
        ~is_applicable(mapping_rules[k], Lower(token), tag, "None")

\* C6: for a token no rule applies to, tokens_to_sign_dicts asks the spelling
\* rule exactly once more, with the tag Default and the lowercased token: if
\* it is applicable the token resolves to its per-character spelling,
\* otherwise the call fails at this token; no other token is retried, and
\* the spelling rule is applied at most once per token.
C6_OneSpellingRetry ==
    (pc = "done" /\ op = "tokens_to_sign_dicts") =>
        \A n \in DOMAIN trace :
            LET rec == trace[n]
                token_lower == Lower(rec.token)
                spellable ==
                    is_applicable(_sinhala_spelling_rule, token_lower,
                                  Tag("DEFAULT"), "None")
                checks == SelectSeq(rec.retry,
                                    LAMBDA e : e.ev = "is_applicable")
                spellings ==
                    SelectSeq(rec.rules \o rec.retry,
                              LAMBDA e : e.ev = "apply" /\ e.priority = 5)
            IN  /\ ~NoRuleApplies(rec.token, rec.tag) =>
                       rec.retry = <<>> /\ ~rec.raised
                /\ NoRuleApplies(rec.token, rec.tag) =>
                       /\ Len(checks) = 1
                       /\ checks[1].priority = 5
                       /\ checks[1].cls = _sinhala_spelling_rule.cls
                       /\ checks[1].tag = Tag("DEFAULT")
                       /\ checks[1].token = token_lower
                       /\ spellable =>
                              /\ ~rec.raised
                              /\ Len(rec.retry) = 2
                              /\ rec.result =
                                     [k \in DOMAIN token_lower |->
                                         word_to_sign_dict[<<token_lower[k]>>]]
                       /\ ~spellable =>
                              /\ rec.raised
                              /\ rec.retry = checks
                              /\ ret.raised
                              /\ n = Len(trace)
                /\ Len(spellings) <= 1

\* C6 witness: a two-letter token tagged Unknown, which no rule applies to,
\* has been resolved by the retry to the signs of its two letters.
C6_Witness ==
    /\ pc = "done" /\ op = "tokens_to_sign_dicts"
    /\ ~ret.raised
    /\ \E n \in DOMAIN trace :
           /\ trace[n].token = <<MA, KA>>
           /\ trace[n].tag = Tag("UNKNOWN")
           /\ NoRuleApplies(trace[n].token, trace[n].tag)
           /\ Len(trace[n].retry) = 2
           /\ trace[n].result =
                  <<word_to_sign_dict[<<MA>>], word_to_sign_dict[<<KA>>]>>

(***************************************************************************)
(* Properties of the letter service (SpecLetters).                         *)
(***************************************************************************)
\* The detailed units of a string, case by case on its first character and
\* the one after it.
RECURSIVE Segmented(_)
Segmented(w) ==
    IF w = <<>> THEN <<>>
    ELSE IF w[1] \notin SINHALA_CONSONANTS
    THEN <<<<w[1]>>>> \o Segmented(Tail(w))
    ELSE IF Len(w) >= 2 /\ w[2] \in DOMAIN SINHALA_VOWEL_MODIFIERS
    THEN <<<<w[1], HAL_KIRIMA>>, <<SINHALA_VOWEL_MODIFIERS[w[2]]>>>>
         \o Segmented(Tail(Tail(w)))
    ELSE IF Len(w) >= 2 /\ w[2] = HAL_KIRIMA
    THEN <<<<w[1], HAL_KIRIMA>>>> \o Segmented(Tail(Tail(w)))
    ELSE <<<<w[1], HAL_KIRIMA>>, <<AYANNA>>>> \o Segmented(Tail(w))

\* C2: break_word_to_letters scans left to right and emits consonant+virama
\* and the mapped independent vowel for a consonant with a vowel modifier,
\* consonant+virama alone for a consonant with a virama, consonant+virama
\* and the inherent vowel for any other consonant, and every other character
\* unchanged; 'ka' gives [k, a] and 'kii' gives [k, ii].
C2_SegmentationCases ==
    (pc = "done" /\ op = "break_word_to_letters") =>
        /\ ret = Segmented(arg.word)
        /\ arg.word = <<KA>> => ret = <<<<KA, HAL_KIRIMA>>, <<AYANNA>>>>
        /\ arg.word = <<KA, DIGA_IS_PILLA>> =>
               ret = <<<<KA, HAL_KIRIMA>>, <<3466>>>>

\* C2 witness: a word with a consonant and vowel modifier, then a final
\* consonant, has been segmented into the four units of the case list.
C2_Witness ==
    /\ pc = "done" /\ op = "break_word_to_letters"
    /\ arg.word = <<KA, DIGA_IS_PILLA, MA>>
    /\ ret = <<<<KA, HAL_KIRIMA>>, <<3466>>, <<MA, HAL_KIRIMA>>, <<AYANNA>>>>

\* The reduced units of a detailed unit sequence, case by case on its first
\* unit and the one after it.
RECURSIVE Reduced(_)
Reduced(d) ==
    IF d = <<>> THEN <<>>
    ELSE IF ~(Len(d[1]) = 2 /\ d[1][1] \in SINHALA_CONSONANTS
              /\ d[1][2] = HAL_KIRIMA)
    THEN <<d[1]>> \o Reduced(Tail(d))
    ELSE IF Len(d) >= 2 /\ Len(d[2]) = 1
            /\ d[2][1] \in SINHALA_INDEPENDENT_VOWELS
    THEN (IF d[2] = <<AYANNA>> THEN <<<<d[1][1]>>>> ELSE <<<<d[1][1]>>, d[2]>>)
         \o Reduced(Tail(Tail(d)))
    ELSE <<<<d[1][1]>>>> \o Reduced(Tail(d))

\* C3: _break_word_letters_option_b reduces the detailed units of the
\* segmentation with one unit of lookahead: consonant+virama and a vowel
\* give the base consonant, followed by the vowel unless it is the inherent
\* one; consonant+virama alone gives the base consonant; every other unit is
\* kept; 'ka' reduces to [ka] and 'kii' to [ka, ii].
C3_ReductionCases ==
    (pc = "done" /\ op = "_break_word_letters_option_b") =>
        /\ trace.detailed_tokens = break_word_to_letters(trace.normalized_word)
        /\ ret = Reduced(trace.detailed_tokens)
        /\ arg.word = <<KA>> => ret = <<<<KA>>>>
        /\ arg.word = <<KA, DIGA_IS_PILLA>> => ret = <<<<KA>>, <<3466>>>>

\* C3 witness: a word whose detailed units hold a consonant with a vowel, a
\* consonant with the inherent vowel and a passthrough unit has been reduced.
C3_Witness ==
    /\ pc = "done" /\ op = "_break_word_letters_option_b"
    /\ trace.detailed_tokens =
           <<<<KA, HAL_KIRIMA>>, <<3466>>, <<MA, HAL_KIRIMA>>, <<AYANNA>>>>
    /\ ret = <<<<KA>>, <<3466>>, <<MA>>>>

\* C4: in break_word_to_letters every input position either yields one
\* unit (two for a consonant that receives a vowel) that starts with its
\* character, or is the combining mark consumed as the lookahead of the
\* consonant just before it; the result is these units in order, and a
\* non-empty input yields at least one unit.
C4_NoCharacterSkipped ==
    (pc = "done" /\ op = "break_word_to_letters") =>
        LET word == arg.word
            Emits(p) ==
                \E k \in DOMAIN trace :
                    /\ trace[k].pos = p
                    /\ Len(trace[k].units) \in {1, 2}
                    /\ trace[k].units[1][1] = word[p]
                    /\ Len(trace[k].units) = 2 =>
                           /\ word[p] \in SINHALA_CONSONANTS
                           /\ trace[k].units[2][1]
                                  \in SINHALA_INDEPENDENT_VOWELS
            Lookahead(p) ==
                /\ p > 1
                /\ word[p - 1] \in SINHALA_CONSONANTS
                /\ word[p] \in SINHALA_COMBINING_MARKS
                /\ \E k \in DOMAIN trace :
                       trace[k].pos = p - 1 /\ trace[k].next = p + 1
        IN  /\ \A p \in DOMAIN word : Emits(p) # Lookahead(p)
            /\ \A k \in DOMAIN trace :
                   /\ trace[k].pos \in DOMAIN word
                   /\ k > 1 => trace[k].pos = trace[k - 1].next
            /\ ret = UnitsOf(trace)
            /\ Len(ret) >= Cardinality({p \in DOMAIN word : Emits(p)})
            /\ word # <<>> => Len(ret) >= 1

\* C4 witness: a word with a passthrough digit and a consonant whose virama
\* is consumed as its lookahead has been segmented into two units.
C4_Witness ==
    /\ pc = "done" /\ op = "break_word_to_letters"
    /\ arg.word = <<49, KA, HAL_KIRIMA>>
    /\ ret = <<<<49>>, <<KA, HAL_KIRIMA>>>>

\* C9: get_word_as_letter_sequence returns one entry per reduced unit, in
\* the order of the units: 'letter_<unit>' with an asset reference for a
\* unit with recorded landmark data, and a placeholder with the unit's text
\* and a null asset reference for every other unit; no unit is dropped.
C9_OneEntryPerUnit ==
    (pc = "done" /\ op = "get_word_as_letter_sequence") =>
        /\ trace.letters = Reduced(Segmented(
               _normalize_prebase_vowel_signs(arg.word)))
        /\ Len(ret) = Len(trace.letters)
        /\ \A k \in DOMAIN ret :
               LET unit == trace.letters[k]
                   recorded == /\ unit \in DOMAIN letter_landmarks
                               /\ letter_landmarks[unit] # <<>>
               IN  /\ ret[k].letter = unit
                   /\ recorded =>
                          /\ ret[k].label = STR_letter_ \o unit
                          /\ ret[k].landmark_data # None
                   /\ ~recorded =>
                          /\ ret[k].label = STR_unknown_letter_ \o unit
                          /\ ret[k].landmark_data = None

\* C9 witness: a word with a unit that has landmark data, between two
\* passthrough units that have none, has been converted to three entries.
C9_Witness ==
    /\ pc = "done" /\ op = "get_word_as_letter_sequence"
    /\ arg.word = <<49, KA, 49>>
    /\ letter_landmarks = LandmarksA
    /\ Len(ret) = 3
    /\ ret[1].landmark_data = None
    /\ ret[2].label = STR_letter_ \o <<KA>>
    /\ ret[3].landmark_data = None

(***************************************************************************)
(* Properties of the translation service (SpecTranslate).                  *)
(***************************************************************************)
\* A sign as the model returned it, with none of the three assets.
HasNoAsset(sign_info) ==
    /\ sign_info.video_path = None
    /\ sign_info.animation_path = None
    /\ sign_info.landmark_data = None

\* C7: every sign the model returned with no video, animation or landmark
\* data (and a non-empty label that does not start with 'letter_') is
\* replaced by the letter spelling of the original token text: one entry per
\* reduced unit of the token the sign came from.
C7_FallbackSpellsTokenText ==
    (pc = "done" /\ op = "translate_text_to_slsl" /\ ret.kind = "signs"
        /\ trace.model_called) =>
        \A k \in DOMAIN trace.signs_data :
            (/\ HasNoAsset(trace.signs_data[k])
             /\ trace.signs_data[k].label # <<>>
             /\ ~StartsWithLetter_(trace.signs_data[k].label)) =>
                trace.segments[k] = get_word_as_letter_sequence(trace.origin[k])

\* C8: a sign the model returned with an asset is overridden by letter
\* spelling if and only if the text of its token contains a Sinhala
\* combining mark and has more than one reduced unit; otherwise the
\* dictionary sign is kept.
C8_OverrideIffMarksAndCount ==
    (pc = "done" /\ op = "translate_text_to_slsl" /\ ret.kind = "signs"
        /\ trace.model_called) =>
        \A k \in DOMAIN trace.signs_data :
            ~HasNoAsset(trace.signs_data[k]) =>
                ((trace.segments[k] # <<trace.signs_data[k]>>)
                 <=> (/\ \E i \in DOMAIN trace.origin[k] :
                             trace.origin[k][i] \in SINHALA_COMBINING_MARKS_SET
                      /\ Len(_break_word_letters_option_b(trace.origin[k])) > 1))

\* C10: whenever translate_text_to_slsl returns letter-spelling entries for a
\* text, the model (restructurer and rule engine) has been called on that
\* text first.
C10_ModelBeforeLetterSpelling ==
    (pc = "done" /\ op = "translate_text_to_slsl" /\ ret.kind = "signs"
        /\ \E k \in DOMAIN ret.signs : "letter" \in DOMAIN ret.signs[k]) =>
        trace.model_called

(***************************************************************************)
(* Properties of the normalisation (SpecLetters).                          *)
(***************************************************************************)
\* C11: a word made of a pre-base vowel sign (the sign e, or the sign o of
\* the docstring's example) immediately before a consonant is normalised to
\* the consonant followed by the sign, and so reduces to the same units as
\* the word stored consonant first.
C11_PreBaseSignSwapped ==
    (/\ pc = "done" /\ op = "_break_word_letters_option_b"
     /\ Len(arg.word) = 2
     /\ arg.word[1] \in {KOMBUVA, KOMBUVA_HAA_AELA_PILLA}
     /\ arg.word[2] \in SINHALA_CONSONANTS) =>
        /\ trace.normalized_word = <<arg.word[2], arg.word[1]>>
        /\ ret = _break_word_letters_option_b(<<arg.word[2], arg.word[1]>>)

\* C12: a word that starts with a consonant followed by the marks e, aa (or
\* with the e stored before the consonant) is normalised to the consonant
\* and the one mark o and reduces to [consonant, independent o]; with the
\* marks e, ii it is normalised to the consonant and the one mark ee and
\* reduces to [consonant, independent ee].
C12_SplitVowelSignsFolded ==
    (pc = "done" /\ op = "_break_word_letters_option_b"
        /\ Len(arg.word) >= 3) =>
        \A c \in SINHALA_CONSONANTS :
            /\ SubSeq(arg.word, 1, 3) \in {<<c, KOMBUVA, AELA_PILLA>>,
                                           <<KOMBUVA, c, AELA_PILLA>>} =>
                   /\ SubSeq(trace.normalized_word, 1, 2)
                          = <<c, KOMBUVA_HAA_AELA_PILLA>>
                   /\ Len(arg.word) = 3 => Len(trace.normalized_word) = 2
                   /\ SubSeq(ret, 1, 2) = <<<<c>>, <<3476>>>>
            /\ SubSeq(arg.word, 1, 3) \in {<<c, KOMBUVA, DIGA_IS_PILLA>>,
                                           <<KOMBUVA, c, DIGA_IS_PILLA>>} =>
                   /\ SubSeq(trace.normalized_word, 1, 2) = <<c, DIGA_KOMBUVA>>
                   /\ Len(arg.word) = 3 => Len(trace.normalized_word) = 2
                   /\ SubSeq(ret, 1, 2) = <<<<c>>, <<3474>>>>

\* C12 witness: the word stored as e, consonant, aa has been normalised to
\* consonant, o and reduced to the consonant and the independent o.
C12_Witness ==
    /\ pc = "done" /\ op = "_break_word_letters_option_b"
    /\ arg.word = <<KOMBUVA, KA, AELA_PILLA>>
    /\ trace.normalized_word = <<KA, KOMBUVA_HAA_AELA_PILLA>>
    /\ ret = <<<<KA>>, <<3476>>>>

(***************************************************************************)
(* Properties of the three rules (SpecRules).                              *)
(***************************************************************************)
\* The labels the vocabulary records for a (lowercased) Sinhala word.
LabelsOfWord(key) ==
    {loaded_custom_data[j].label :
        j \in {i \in DOMAIN loaded_custom_data :
                  /\ "si" \in DOMAIN loaded_custom_data[i].text
                  /\ \E n \in DOMAIN loaded_custom_data[i].text["si"] :
                         Lower(loaded_custom_data[i].text["si"][n]) = key}}

\* What the call log says about the rule registered with priority p.
RuleAsked(p) ==
    \E k \in DOMAIN trace :
        trace[k].ev = "is_applicable" /\ trace[k].priority = p
RuleFired(p) ==
    \E k \in DOMAIN trace : trace[k].ev = "apply" /\ trace[k].priority = p

\* C13: in every _apply_rules call the Direct rule is asked first and is
\* applicable exactly when the lowercased token is a key of the word table,
\* whatever the tag (a single tag, None or a list); it then returns the
\* stored entry of that key unchanged, and for a word recorded with the one
\* label L that is one SignSpec with signs [[L]] and weight 1.
C13_DirectRuleIsTableLookup ==
    (pc = "done" /\ op = "_apply_rules") =>
        /\ trace[1].ev = "is_applicable"
        /\ trace[1].cls = "DirectMappingRule"
        /\ RuleFired(1) <=> Lower(arg.token) \in DOMAIN word_to_sign_dict
        /\ RuleFired(1) =>
               /\ ~ret.raised
               /\ ret.result = <<word_to_sign_dict[Lower(arg.token)]>>
        /\ \A L \in LabelsOfWord(Lower(arg.token)) :
               LabelsOfWord(Lower(arg.token)) = {L} =>
                   ret.result = <<[signs |-> <<<<L>>>>,
                                   weights |-> <<<<1, 1>>>>]>>

\* C13 witness: the dictionary word of two letters, recorded under one
\* label, has been resolved by the Direct rule although its tag is a list.
C13_Witness ==
    /\ pc = "done" /\ op = "_apply_rules"
    /\ arg.token = <<KA, KA>>
    /\ arg.tag = TagList(<<"UNKNOWN", "NAME">>)
    /\ RuleFired(1)
    /\ ret.result = <<[signs |-> <<<<<<108, 107, 50>>>>>>,
                       weights |-> <<<<1, 1>>>>]>>

\* C14: whenever the number rule is asked, it is applicable exactly when the
\* tag is NUMBER and every digit character of the token (the other
\* characters ignored) is a key of the word table; it then returns one
\* SignSpec per digit, in the order of the digits, each the table entry of
\* that digit.
C14_NumberRulePerDigit ==
    (pc = "done" /\ op = "_apply_rules" /\ RuleAsked(3)) =>
        /\ RuleFired(3) <=>
               /\ arg.tag = Tag("NUMBER")
               /\ \A k \in DOMAIN arg.token :
                      IsDigit(arg.token[k]) =>
                          <<arg.token[k]>> \in DOMAIN word_to_sign_dict
        /\ RuleFired(3) =>
               /\ ~ret.raised
               /\ Len(ret.result) = Len(SelectSeq(arg.token, IsDigit))
               /\ \A k \in DOMAIN ret.result :
                      ret.result[k] =
                          word_to_sign_dict[<<SelectSeq(arg.token, IsDigit)[k]>>]

\* C14 witness: '99' tagged NUMBER, not itself a dictionary word, has been
\* resolved to two SignSpecs that are both the entry of '9'.
C14_Witness ==
    /\ pc = "done" /\ op = "_apply_rules"
    /\ arg = [token |-> <<57, 57>>, tag |-> Tag("NUMBER")]
    /\ <<57, 57>> \notin DOMAIN word_to_sign_dict
    /\ RuleFired(3)
    /\ ret.result = <<word_to_sign_dict[<<57>>], word_to_sign_dict[<<57>>]>>

\* The character table: the word-table keys that are one character of the
\* Sinhala block U+0D80..U+0DFF.
CharacterTable ==
    {w \in DOMAIN word_to_sign_dict :
        Len(w) = 1 /\ 3456 <= w[1] /\ w[1] <= 3583}

\* The tag, or one tag of the list, is Default or Name; None is neither.
TagAllowed(tag) ==
    \E k \in DOMAIN tag.v : tag.v[k] \in {"DEFAULT", "NAME"}

SpelledPerCharacter ==
    /\ ~ret.raised
    /\ Len(ret.result) = Len(arg.token)
    /\ \A k \in DOMAIN arg.token :
           ret.result[k] = word_to_sign_dict[<<Lower(arg.token)[k]>>]

\* C15 as stated: whenever the character-by-character rule is asked, it is
\* applicable exactly when the tag is allowed and every character of the
\* token is in the character table, and it then returns one SignSpec per
\* character, in order; with the tag None it is never applicable.
C15_SpellingRuleIff ==
    (pc = "done" /\ op = "_apply_rules" /\ RuleAsked(5)) =>
        /\ RuleFired(5) <=>
               /\ TagAllowed(arg.tag)
               /\ \A k \in DOMAIN arg.token :
                      <<Lower(arg.token)[k]>> \in CharacterTable
        /\ RuleFired(5) => SpelledPerCharacter
        /\ arg.tag = TagNone => ~RuleFired(5)

\* C15 amended: whenever the character-by-character rule is asked, it is
\* applicable exactly when the character table is not empty, the tag is
\* allowed and every character of the token is in the character table, and
\* it then returns one SignSpec per character, in order; with the tag None
\* it is never applicable.
C15_SpellingRuleIffTableNotEmpty ==
    (pc = "done" /\ op = "_apply_rules" /\ RuleAsked(5)) =>
        /\ RuleFired(5) <=>
               /\ CharacterTable # {}
               /\ TagAllowed(arg.tag)
               /\ \A k \in DOMAIN arg.token :
                      <<Lower(arg.token)[k]>> \in CharacterTable
        /\ RuleFired(5) => SpelledPerCharacter
        /\ arg.tag = TagNone => ~RuleFired(5)

\* C15 witness: a word of two letters that is no dictionary word, tagged
\* with a list of tags of which one is Name, has been spelled letter by
\* letter.
C15_Witness ==
    /\ pc = "done" /\ op = "_apply_rules"
    /\ arg = [token |-> <<MA, KA>>, tag |-> TagList(<<"UNKNOWN", "NAME">>)]
    /\ RuleFired(5)
    /\ ret.result = <<word_to_sign_dict[<<MA>>], word_to_sign_dict[<<KA>>]>>

(***************************************************************************)
(* Properties of restructure_sentence (SpecRules).                         *)
(***************************************************************************)
\* The tag and the context the loop pairs with position i of the sentence.
TagAt(i) == IF i <= Len(arg.tags) THEN arg.tags[i] ELSE Tag("DEFAULT")
ContextAt(i) == IF i <= Len(arg.contexts) THEN arg.contexts[i] ELSE "None"

\* The positions of the sentence the claim says survive.
Survivors ==
    {i \in DOMAIN arg.sentence :
        /\ Lower(arg.sentence[i]) \notin STOPWORDS
        /\ TagAt(i) \notin {Tag("SPACE"), Tag("PUNCTUATION")}}

\* The k-th smallest element of a set of positions.
RECURSIVE KthOf(_, _)
KthOf(S, k) ==
    LET m == CHOOSE x \in S : \A y \in S : x <= y
    IN  IF k = 1 THEN m ELSE KthOf(S \ {m}, k - 1)

\* C16: a restructure_sentence call whose tags are single tags returns three
\* lists of the same length, one position per token that is neither tagged
\* Space or Punctuation nor a stopword, in the order of the sentence: the
\* k-th position holds the k-th surviving token (a token tagged Number
\* without its grouping commas), its tag and its context.  (A list used as
\* a tag makes the membership test raise TypeError.)
C16_RestructureFiltersInOrder ==
    (pc = "done" /\ op = "restructure_sentence") =>
        /\ ret.raised <=>
               \E i \in DOMAIN arg.sentence :
                   Lower(arg.sentence[i]) \notin STOPWORDS /\ TagAt(i).list
        /\ ~ret.raised =>
               /\ Len(ret.tokens) = Cardinality(Survivors)
               /\ Len(ret.tags) = Len(ret.tokens)
               /\ Len(ret.contexts) = Len(ret.tokens)
               /\ \A k \in DOMAIN ret.tokens :
                      LET i == KthOf(Survivors, k)
                      IN  /\ ret.tokens[k] =
                                 IF TagAt(i) = Tag("NUMBER")
                                 THEN RemoveCommas(arg.sentence[i])
                                 ELSE arg.sentence[i]
                          /\ ret.tags[k] = TagAt(i)
                          /\ ret.contexts[k] = ContextAt(i)

\* C16 witness: of a stopword and a letter with one tag and one context
\* less than tokens, only the letter survives, with the default tag and no
\* context.
C16_Witness ==
    /\ pc = "done" /\ op = "restructure_sentence"
    /\ arg = [sentence |-> <<<<3523, 3524>>, <<KA>>>>,
              tags |-> <<Tag("NUMBER")>>, contexts |-> <<"c">>]
    /\ ret = [raised |-> FALSE, tokens |-> <<<<KA>>>>,
              tags |-> <<Tag("DEFAULT")>>, contexts |-> <<"None">>]

(***************************************************************************)
(* Properties of the word table built at start-up (SpecRules).             *)
(***************************************************************************)
\* The (lowercased) words the vocabulary lists under the language code si.
SinhalaWords ==
    UNION {{Lower(loaded_custom_data[i].text["si"][n]) :
                n \in DOMAIN loaded_custom_data[i].text["si"]} :
           i \in {j \in DOMAIN loaded_custom_data :
                     "si" \in DOMAIN loaded_custom_data[j].text}}

RECURSIVE SumOfNumerators(_)
SumOfNumerators(weights) ==
    IF weights = <<>> THEN 0
    ELSE Head(weights)[1] + SumOfNumerators(Tail(weights))

\* C17: the word table has one entry per Sinhala word of the vocabulary, and
\* for a word with N distinct labels the entry holds exactly N alternatives,
\* one per label and no label twice, each with weight 1/N, so that the
\* weights sum to 1.
C17_EqualWeightsPerWord ==
    /\ DOMAIN word_to_sign_dict = SinhalaWords
    /\ \A w \in DOMAIN word_to_sign_dict :
           LET entry == word_to_sign_dict[w]
               N == Cardinality(LabelsOfWord(w))
           IN  /\ N >= 1
               /\ Len(entry.signs) = N
               /\ Range(entry.signs) = {<<L>> : L \in LabelsOfWord(w)}
               /\ Len(entry.weights) = N
               /\ \A k \in DOMAIN entry.weights : entry.weights[k] = <<1, N>>
               /\ SumOfNumerators(entry.weights) = N

\* C17 witness: the letter recorded under two labels has been resolved to
\* an entry of two alternatives of weight 1/2, while the number whose label
\* lists it twice has one alternative of weight 1.
C17_Witness ==
    /\ pc = "done" /\ op = "_apply_rules"
    /\ arg.token = <<KA>>
    /\ ret.result = <<[signs |-> << <<<<108, 107, 49>>>>, <<<<108, 107, 53>>>> >>,
                       weights |-> <<<<1, 2>>, <<1, 2>>>>]>>
    /\ word_to_sign_dict[<<57, 57>>] =
           [signs |-> << <<<<108, 107, 52>>>> >>, weights |-> <<<<1, 1>>>>]

\* C18: every word the vocabulary lists for a sign identifier, under any
\* language code of its text mapping, resolves: an _apply_rules call with
\* such a word finds its lowercased text as a key of the word table and
\* returns the entry of that key, whose alternatives include the identifier.
C18_WordOfAnyLanguageResolves ==
    (pc = "done" /\ op = "_apply_rules") =>
        \A i \in DOMAIN loaded_custom_data :
            \A lang \in DOMAIN loaded_custom_data[i].text :
                \A n \in DOMAIN loaded_custom_data[i].text[lang] :
                    Lower(loaded_custom_data[i].text[lang][n])
                            = Lower(arg.token) =>
                        /\ Lower(arg.token) \in DOMAIN word_to_sign_dict
                        /\ ~ret.raised
                        /\ Len(ret.result) = 1
                        /\ <<loaded_custom_data[i].label>>
                               \in Range(ret.result[1].signs)

(***************************************************************************)
(* Properties of tokens_to_sign_dicts and of the tables (SpecRules).       *)
(***************************************************************************)
\* C19: a tokens_to_sign_dicts call does not fail on a word no rule can
\* resolve and the retry cannot spell: it returns, and the result contains
\* a sign labelled 'UNK_' followed by the word.
C19_UnknownWordGetsPlaceholder ==
    (pc = "done" /\ op = "tokens_to_sign_dicts") =>
        /\ ~ret.raised
        /\ \A k \in DOMAIN trace :
               trace[k].raised =>
                   \E j \in DOMAIN ret.result :
                       <<<<85, 78, 75, 95>> \o trace[k].token>>
                           \in Range(ret.result[j].signs)

\* C20: after construction no step of the program (a call of
\* restructure_sentence, tokens_to_sign_dicts, _apply_rules or __call__, or
\* its return) changes the rule list, the word table, the spelling rule
\* with its character table, or the loaded vocabulary.
C20_RulesAndTablesReadOnly ==
    [][UNCHANGED <<mapping_rules, word_to_sign_dict, _sinhala_spelling_rule,
                   loaded_custom_data>>]_vars

\* C20 witness: a __call__ on a two-token sentence has returned signs, and
\* the rule list and the word table are still the ones construction built
\* from the vocabulary.
C20_Witness ==
    /\ pc = "done" /\ op = "__call__"
    /\ Len(arg.tokens) = 2
    /\ ~ret.raised
    /\ Len(ret.result) >= 2
    /\ loaded_custom_data = DictionaryA
    /\ word_to_sign_dict = BuildWordToSignDict(loaded_custom_data)
    /\ mapping_rules = BuildMappingRules(word_to_sign_dict)
    /\ _sinhala_spelling_rule =
           __get_sinhala_spelling_rule(5, word_to_sign_dict)

(***************************************************************************)
(* Properties of the singleton accessor (SpecSingleton).                   *)
(***************************************************************************)
\* C21: over the life of the process at most one LetterMappingService is
\* constructed, every call of get_letter_mapping_service that has returned
\* returned that one instance, also when the calls overlap, and the global
\* is not written again once it refers to an instance.
C21_OneInstanceForAllCallers ==
    /\ Len(trace) <= 1
    /\ \A t \in Threads : ret[t] # 0 => ret[t] = 1
    /\ \A t \in Threads :
           pc[t] = "store" => _letter_mapping_service = 0

(***************************************************************************)
(* Further properties of the letter service (SpecLetters).                 *)
(***************************************************************************)
\* A list of non-empty strings.
IsListOfStrings(list) ==
    /\ DOMAIN list = 1 .. Len(list)
    /\ \A k \in DOMAIN list : Len(list[k]) >= 1

\* C22: every call of break_word_to_letters and of
\* _break_word_letters_option_b returns a list of strings, and every
\* iteration of the three loops (normalisation, segmentation, reduction)
\* moves its index on by at least one and never past the end of what it
\* scans.
C22_EveryLoopAdvances ==
    /\ (pc = "done" /\ op = "break_word_to_letters") =>
           /\ IsListOfStrings(ret)
           /\ \A k \in DOMAIN trace :
                  /\ trace[k].next > trace[k].pos
                  /\ trace[k].next <= Len(arg.word) + 1
    /\ (pc = "done" /\ op = "_break_word_letters_option_b") =>
           /\ IsListOfStrings(ret)
           /\ DOMAIN trace.normalized_word
                  = 1 .. Len(trace.normalized_word)
           /\ \A i \in 0 .. Len(arg.word) - 1 :
                  /\ NormalizeStep(arg.word, i).next > i
                  /\ NormalizeStep(arg.word, i).next <= Len(arg.word)
           /\ \A i \in DOMAIN trace.normalized_word :
                  /\ BreakStep(trace.normalized_word, i).next > i
                  /\ BreakStep(trace.normalized_word, i).next
                         <= Len(trace.normalized_word) + 1
           /\ \A i \in DOMAIN trace.detailed_tokens :
                  /\ ReduceStep(trace.detailed_tokens, i).next > i
                  /\ ReduceStep(trace.detailed_tokens, i).next
                         <= Len(trace.detailed_tokens) + 1

\* C22 witness: a word of a pre-base sign, a consonant and a digit has been
\* normalised, segmented and reduced, the digit passed through.
C22_Witness ==
    /\ pc = "done" /\ op = "_break_word_letters_option_b"
    /\ arg.word = <<KOMBUVA, KA, 49>>
    /\ trace.normalized_word = <<KA, KOMBUVA, 49>>
    /\ ret = <<<<KA>>, <<3473>>, <<49>>>>

(***************************************************************************)
(* Properties of repeated calls (SpecRepeat).                              *)
(***************************************************************************)
\* C23: any two calls of the same function (break_word_to_letters or
\* _break_word_letters_option_b) that returned for the same string returned
\* identical lists, whatever calls came in between or ran alongside.
C23_SameWordSameResult ==
    \A j, k \in DOMAIN trace :
        (trace[j].op = trace[k].op /\ trace[j].word = trace[k].word) =>
            trace[j].result = trace[k].result

\* C23 witness: the same word was reduced by the first and the last call
\* that returned, a call of the segmenter on another word returned in
\* between, and both reductions gave the consonant and the vowel o.
C23_Witness ==
    /\ Len(trace) = 3
    /\ trace[1].op = "_break_word_letters_option_b"
    /\ trace[1].word = <<KA, KOMBUVA, AELA_PILLA>>
    /\ trace[2].op = "break_word_to_letters"
    /\ trace[2].word = <<KOMBUVA, KA>>
    /\ trace[3].op = trace[1].op /\ trace[3].word = trace[1].word
    /\ trace[3].result = <<<<KA>>, <<3476>>>>
    /\ trace[1].result = trace[3].result

(***************************************************************************)
(* Properties of the reduction (SpecLetters).                              *)
(***************************************************************************)
\* The vowels a word writes, in order: each independent vowel letter, and
\* for each vowel sign that directly follows a consonant the independent
\* vowel the table gives for it.
WrittenVowels(w) ==
    Concat([k \in DOMAIN w |->
               IF w[k] \in SINHALA_INDEPENDENT_VOWELS THEN <<<<w[k]>>>>
               ELSE IF /\ w[k] \in DOMAIN SINHALA_VOWEL_MODIFIERS
                       /\ k > 1
                       /\ w[k - 1] \in SINHALA_CONSONANTS
               THEN <<<<SINHALA_VOWEL_MODIFIERS[w[k]]>>>>
               ELSE <<>>])

\* C24: the independent vowels of the reduced sequence are, in order,
\* exactly the vowels the (normalised) word writes: only the inherent vowel
\* is omitted, and an independent vowel letter of the input is never
\* dropped, also when it directly follows a consonant with a virama.
C24_WrittenVowelsKept ==
    (pc = "done" /\ op = "_break_word_letters_option_b") =>
        SelectSeq(ret, IsIndependentVowel)
            = WrittenVowels(trace.normalized_word)

(***************************************************************************)
(* Further properties of restructure_sentence and tokens_to_sign_dicts     *)
(* (SpecRules).                                                            *)
(***************************************************************************)
\* C25: in the result of a restructure_sentence call every surviving token
\* carries the tag and the context supplied at its position (Default and
\* None where the lists are too short); its text is the text of the input
\* token, case and commas included, unless its tag is Number, in which case
\* exactly the commas are removed.
C25_OnlyNumberCommasChange ==
    (pc = "done" /\ op = "restructure_sentence" /\ ~ret.raised) =>
        /\ Len(ret.tokens) = Cardinality(Survivors)
        /\ \A k \in DOMAIN ret.tokens :
               LET i == KthOf(Survivors, k)
               IN  /\ ret.tags[k] =
                          IF i <= Len(arg.tags) THEN arg.tags[i]
                          ELSE Tag("DEFAULT")
                   /\ ret.contexts[k] =
                          IF i <= Len(arg.contexts) THEN arg.contexts[i]
                          ELSE "None"
                   /\ ret.tags[k] # Tag("NUMBER") =>
                          ret.tokens[k] = arg.sentence[i]
                   /\ ret.tags[k] = Tag("NUMBER") =>
                          ret.tokens[k] =
                              SelectSeq(arg.sentence[i], LAMBDA c : c # 44)

\* C25 witness: of 'A,' with no tag and '9,' tagged Number, given in a
\* sentence with one tag too few and no contexts, the first keeps its text
\* and gets Default and None, the second loses its comma.
C25_Witness ==
    /\ pc = "done" /\ op = "restructure_sentence"
    /\ arg = [sentence |-> <<<<57, 44>>, <<65, 44>>>>,
              tags |-> <<Tag("NUMBER")>>, contexts |-> <<>>]
    /\ ret = [raised |-> FALSE, tokens |-> <<<<57>>, <<65, 44>>>>,
              tags |-> <<Tag("NUMBER"), Tag("DEFAULT")>>,
              contexts |-> <<"None", "None">>]

(***************************************************************************)
(* Properties of the normalisation as a function (SpecLetters).            *)
(***************************************************************************)
\* C26: normalising the normalised word of a call again returns it
\* unchanged.
C26_NormalisationIdempotent ==
    (pc = "done" /\ op = "_break_word_letters_option_b") =>
        _normalize_prebase_vowel_signs(trace.normalized_word)
            = trace.normalized_word

\* The consonants of a string, in order.
ConsonantsOf(w) == SelectSeq(w, LAMBDA c : c \in SINHALA_CONSONANTS)

\* C27: the consonants of the reduced sequence of a call, read in order,
\* are exactly the consonants of the input word read in order, each reduced
\* unit holding at most one of them; the same holds for the normalised word.
C27_ConsonantsPreserved ==
    (pc = "done" /\ op = "_break_word_letters_option_b") =>
        /\ ConsonantsOf(trace.normalized_word) = ConsonantsOf(arg.word)
        /\ ConsonantsOf(Concat(ret)) = ConsonantsOf(arg.word)
        /\ \A k \in DOMAIN ret : Len(ConsonantsOf(ret[k])) <= 1

\* C27 witness: a word of a pre-base sign and two different consonants has
\* been reduced to the first consonant, the vowel of the sign and the second
\* consonant.
C27_Witness ==
    /\ pc = "done" /\ op = "_break_word_letters_option_b"
    /\ arg.word = <<KOMBUVA, KA, MA>>
    /\ trace.normalized_word = <<KA, KOMBUVA, MA>>
    /\ ret = <<<<KA>>, <<3473>>, <<MA>>>>

\* C28: a tokens_to_sign_dicts call that returns has resolved every input
\* token, in order, whatever the number of tags and contexts supplied, and
\* its result is the concatenation of the tokens' resolutions; a call
\* raises only when some token could not be resolved.
C28_EveryTokenResolved ==
    (pc = "done" /\ op = "tokens_to_sign_dicts") =>
        /\ ~ret.raised =>
               /\ Len(trace) = Len(arg.tokens)
               /\ \A k \in DOMAIN trace : trace[k].token = arg.tokens[k]
               /\ ret.result = Concat([k \in DOMAIN trace |-> trace[k].result])
        /\ ret.raised => \E k \in DOMAIN trace : trace[k].raised

(***************************************************************************)
(* Further properties of translate_text_to_slsl (SpecTranslate).           *)
(***************************************************************************)
\* C29: when translate_text_to_slsl returns signs after calling the model,
\* the result is, sign by sign in the order the model returned them, either
\* the sign itself or the complete letter sequence of its label in its
\* place; an entry that is not a dict or whose label is empty stays itself.
C29_SignsKeptInPlace ==
    (pc = "done" /\ op = "translate_text_to_slsl" /\ ret.kind = "signs"
        /\ trace.model_called) =>
        /\ Len(trace.segments) = Len(trace.signs_data)
        /\ ret.signs = Concat(trace.segments)
        /\ \A k \in DOMAIN trace.signs_data :
               /\ \/ trace.segments[k] = <<trace.signs_data[k]>>
                  \/ /\ trace.segments[k] # <<>>
                     /\ trace.segments[k] =
                            get_word_as_letter_sequence(
                                trace.signs_data[k].label)
               /\ (\/ "not_a_dict" \in DOMAIN trace.signs_data[k]
                   \/ trace.signs_data[k].label = <<>>) =>
                      trace.segments[k] = <<trace.signs_data[k]>>

\* C29 witness: the model returned an entry that is not a dict followed by
\* a sign whose label has a combining mark; the result is that entry
\* followed by the letters of the label.
C29_Witness ==
    /\ pc = "done" /\ op = "translate_text_to_slsl" /\ ret.kind = "signs"
    /\ trace.model_called
    /\ Len(trace.signs_data) = 2
    /\ trace.signs_data[1] = NotADict
    /\ trace.signs_data[2].label = <<KA, DIGA_IS_PILLA, KA>>
    /\ Len(trace.segments[2]) = 3
    /\ ret.signs = <<NotADict>> \o trace.segments[2]
    /\ "letter" \in DOMAIN ret.signs[2]

\* C30: every translate_text_to_slsl call returns a result of exactly one
\* kind, signs or error.  With no model loaded it is the error
\* SERVICE_UNAVAILABLE, with no model for the language MODEL_MISSING, and
\* in both cases neither a model nor the letter service was called; with
\* the model of the language loaded an error result carries no code and
\* comes from an exception of the model call.
C30_AlwaysSignsOrError ==
    (pc = "done" /\ op = "translate_text_to_slsl") =>
        /\ ret.kind \in {"signs", "error"}
        /\ ret.kind = "error" => ret.signs = <<>>
        /\ models = {} =>
               /\ ret.kind = "error" /\ ret.code = "SERVICE_UNAVAILABLE"
               /\ trace = Untouched
               /\ _letter_mapping_service = "None"
        /\ (/\ models # {}
            /\ (arg.source_language_code \o STR_to_sinhala_sl) \notin models) =>
               /\ ret.kind = "error" /\ ret.code = "MODEL_MISSING"
               /\ trace = Untouched
        /\ (arg.source_language_code \o STR_to_sinhala_sl) \in models =>
               /\ ret.code = ""
               /\ ret.kind = "error" =>
                      /\ trace.model_called
                      /\ trace.signs_data = <<>>

\* C30 witness: with the Sinhala model loaded, the model call raised on a
\* text and the call returned an error result without a code.
C30_Witness ==
    /\ pc = "done" /\ op = "translate_text_to_slsl"
    /\ arg.source_language_code = STR_si
    /\ STR_si \o STR_to_sinhala_sl \in models
    /\ arg.text # <<>>
    /\ trace.model_called
    /\ ret = [kind |-> "error", code |-> "", signs |-> <<>>]

====
